---- MODULE Spec2Model ----
(***************************************************************************)
(* Model of the forecasting core of the household energy tracker:          *)
(* EnergyPredictor (src/ml_models/energy_predictor.py), the event-store    *)
(* read path it is fed from (src/database/db_config.py) and the            *)
(* prediction routes that drive it (src/backend/app.py).                   *)
(*                                                                         *)
(* Numbers.  Energy is a fixed-point integer in ticks of 1e-5 kWh, a       *)
(* tariff is in hundredths of a currency unit per kWh, so energy * tariff  *)
(* is in units of 1e-7 currency.  round(x, 4) on energy is rounding to a   *)
(* multiple of 10 ticks, round(x, 2) on energy to a multiple of 1000       *)
(* ticks, round(x, 2) on a cost to a multiple of 100000 of the product     *)
(* unit (the result is kept in hundredths).  Means are floor divisions.    *)
(*                                                                         *)
(* Time.  A timestamp is a number of hours since 2024-01-01 00:00 (a       *)
(* Monday); a date is a number of days since 2024-01-01.                   *)
(***************************************************************************)
EXTENDS Integers, Sequences, FiniteSets, TLC

VARIABLES predictor, disk, last, store, requests, session, db

vars == <<predictor, disk, last, store, requests, session, db>>

(***************************************************************************)
(* Bounds of the model.                                                    *)
(***************************************************************************)
\* pandas' Timestamp.max, scaled down: the last date a Timestamp can hold
TimestampMaxOrd == 45
\* longest horizon a caller asks predict_next_days for
MaxHorizon == 3
\* longest history (in aggregated days) fed to aggregate_daily on its own
MaxAggDays == 33

(***************************************************************************)
(* Small helpers.                                                          *)
(***************************************************************************)
Max(a, b) == IF a >= b THEN a ELSE b

\* a column held as a sequence of its cells; f is a function on 1..n
Column(f) == f \o <<>>

RECURSIVE SumSeq(_, _, _)
\* sum of s[lo..hi]
SumSeq(s, lo, hi) == IF lo > hi THEN 0 ELSE s[hi] + SumSeq(s, lo, hi - 1)

\* Series.mean() on s[lo..hi], lo <= hi
MeanSeq(s, lo, hi) == SumSeq(s, lo, hi) \div (hi - lo + 1)

\* Python's round(): to the nearest multiple of q, ties to the even multiple
RoundHalfEven(x, q) ==
    LET f == x \div q
        r == x % q
    IN  IF 2 * r < q THEN f * q
        ELSE IF 2 * r > q THEN (f + 1) * q
        ELSE IF f % 2 = 0 THEN f * q ELSE (f + 1) * q

RECURSIVE SortedDescending(_)
\* the elements of a finite set of integers, descending
SortedDescending(S) ==
    IF S = {} THEN <<>>
    ELSE LET m == CHOOSE x \in S : \A y \in S : x >= y
         IN  <<m>> \o SortedDescending(S \ {m})

RECURSIVE SortedSeq(_)
\* the elements of a finite set of integers, ascending
SortedSeq(S) ==
    IF S = {} THEN <<>>
    ELSE LET m == CHOOSE x \in S : \A y \in S : x <= y
         IN  <<m>> \o SortedSeq(S \ {m})

(***************************************************************************)
(* Calendar (pandas .dt accessors on a date).                              *)
(***************************************************************************)
MonthLengths == <<31, 29, 31, 30, 31, 30, 31, 31, 30, 31, 30, 31>>

RECURSIVE MonthDay(_, _)
\* <<month, day of month>> of the date that is d days after the 1st of month m
MonthDay(d, m) ==
    IF d < MonthLengths[m] THEN <<m, d + 1>>
    ELSE MonthDay(d - MonthLengths[m], (m % 12) + 1)

\* Timestamp.dayofweek: Monday = 0
dayofweek(date) == date % 7

\* Timestamp.day
day_of_month(date) == MonthDay(date, 1)[2]

\* Timestamp.month
month_of(date) == MonthDay(date, 1)[1]

\* is_weekend = (day_of_week >= 5).astype(int)
is_weekend(date) == IF dayofweek(date) >= 5 THEN 1 ELSE 0

\* pd.to_datetime(timestamp).dt.date: the calendar date of a timestamp
DateOf(timestamp) == timestamp \div 24

(***************************************************************************)
(* Data frames.  columns = FALSE is pd.DataFrame(): no rows, no columns.   *)
(***************************************************************************)
DataFrame(rows) == [columns |-> TRUE, rows |-> rows]

EmptyFrame == [columns |-> FALSE, rows |-> <<>>]

\* DatabaseConfig.get_data_as_dataframe: `if data:` is false for None and []
get_data_as_dataframe(data) ==
    IF data # <<>> THEN DataFrame(data) ELSE EmptyFrame

(***************************************************************************)
(* aggregate_daily.                                                        *)
(***************************************************************************)
\* an undefined cell of a column
NaN == <<>>

\* Series.shift(-k): the value k rows ahead
shift_lead(col, k) ==
    Column([i \in 1..Len(col) |-> IF i + k <= Len(col) THEN <<col[i + k]>> ELSE NaN])

\* Series.shift(k)
shift(col, k) ==
    Column([i \in 1..Len(col) |-> IF i - k >= 1 THEN <<col[i - k]>> ELSE NaN])

\* Series.rolling(window=w, min_periods=1).mean()
rolling_mean(col, w) ==
    Column([i \in 1..Len(col) |-> <<MeanSeq(col, Max(1, i - w + 1), i)>>])

\* fillna(method='ffill') on one column: the nearest earlier defined cell
ffill(col) ==
    Column([i \in 1..Len(col) |->
        IF col[i] # NaN THEN col[i]
        ELSE LET earlier == {j \in 1..i : col[j] # NaN}
             IN  IF earlier = {} THEN NaN
                 ELSE col[CHOOSE j \in earlier : \A k \in earlier : j >= k]])

\* fillna(method='bfill') on one column: the nearest later defined cell
bfill(col) ==
    Column([i \in 1..Len(col) |->
        IF col[i] # NaN THEN col[i]
        ELSE LET later == {j \in i..Len(col) : col[j] # NaN}
             IN  IF later = {} THEN NaN
                 ELSE col[CHOOSE j \in later : \A k \in later : j <= k]])

\* fillna(0) on one column, unwrapping the cells
fillna0(col) ==
    Column([i \in 1..Len(col) |-> IF col[i] = NaN THEN 0 ELSE col[i][1]])

\* the columns of lag features of a series of daily totals
LagColumns(total) ==
    [prev_day_kwh    |-> fillna0(bfill(shift(total, 1))),
     prev_week_kwh   |-> fillna0(bfill(shift(total, 7))),
     avg_last_7days  |-> fillna0(bfill(rolling_mean(total, 7))),
     avg_last_30days |-> fillna0(bfill(rolling_mean(total, 30)))]

\* groupby('date').agg(field: 'first') for one date
GroupFirst(rows, date, field) ==
    LET idx == {i \in 1..Len(rows) : DateOf(rows[i].timestamp) = date}
    IN  rows[CHOOSE i \in idx : \A j \in idx : i <= j][field]

\* groupby('date').agg(field: 'sum') for one date
GroupSum(rows, date, field) ==
    LET idx == SortedSeq({i \in 1..Len(rows) : DateOf(rows[i].timestamp) = date})
        col == Column([k \in 1..Len(idx) |-> rows[idx[k]][field]])
    IN  SumSeq(col, 1, Len(col))

\* groupby('date').agg('appliance_name': 'count') for one date
GroupCount(rows, date) ==
    Cardinality({i \in 1..Len(rows) : DateOf(rows[i].timestamp) = date})

\* EnergyPredictor.aggregate_daily: [error, rows]; error is "" on success
aggregate_daily(df) ==
    IF ~df.columns THEN [error |-> "KeyError", rows |-> <<>>]
    ELSE
    LET dates == SortedSeq({DateOf(df.rows[i].timestamp) : i \in 1..Len(df.rows)})
        n     == Len(dates)
        total == Column([i \in 1..n |-> GroupSum(df.rows, dates[i], "power_usage_kwh")])
        lag   == LagColumns(total)
    IN  [error |-> "",
         rows  |-> Column([i \in 1..n |->
            [date            |-> dates[i],
             total_kwh       |-> total[i],
             total_cost      |-> GroupSum(df.rows, dates[i], "cost"),
             num_uses        |-> GroupCount(df.rows, dates[i]),
             day_of_week     |-> dayofweek(dates[i]),
             day_of_month    |-> day_of_month(dates[i]),
             month           |-> month_of(dates[i]),
             is_weekend      |-> is_weekend(dates[i]),
             prev_day_kwh    |-> lag.prev_day_kwh[i],
             prev_week_kwh   |-> lag.prev_week_kwh[i],
             avg_last_7days  |-> lag.avg_last_7days[i],
             avg_last_30days |-> lag.avg_last_30days[i]]])]

(***************************************************************************)
(* Feature pipeline: StandardScaler.  A scaled value is in thousandths of  *)
(* a standard deviation.                                                   *)
(***************************************************************************)
\* feature_cols of train, in the order the design matrix is built
feature_cols ==
    <<"day_of_week", "day_of_month", "month", "is_weekend", "num_uses",
      "prev_day_kwh", "prev_week_kwh", "avg_last_7days", "avg_last_30days">>

\* StandardScaler(): not fitted
NewScaler == [fitted |-> FALSE, mean_ |-> <<>>, scale_ |-> <<>>]

RECURSIVE ISqrtIn(_, _, _)
\* the k in lo..hi-1 with k * k <= v < (k + 1) * (k + 1), by bisection
ISqrtIn(v, lo, hi) ==
    IF hi - lo <= 1 THEN lo
    ELSE LET mid == (lo + hi) \div 2
         IN  IF mid * mid <= v THEN ISqrtIn(v, mid, hi) ELSE ISqrtIn(v, lo, mid)

\* floor of the square root (np.sqrt of the variance)
ISqrt(v) == ISqrtIn(v, 0, 40000)

\* X[names]: the rows of a table as vectors, in the order of names
SelectColumns(rows, names) ==
    Column([i \in 1..Len(rows) |-> Column([j \in 1..Len(names) |-> rows[i][names[j]]])])

\* StandardScaler.fit on the rows X (all of one width, X not empty):
\* per-feature mean and standard deviation, a zero deviation replaced by 1
scaler_fit(X) ==
    LET n == Len(X)
        w == Len(X[1])
        col(j)  == Column([i \in 1..n |-> X[i][j]])
        mean_   == Column([j \in 1..w |-> SumSeq(col(j), 1, n) \div n])
        dev2(j) == Column([i \in 1..n |-> (X[i][j] - mean_[j]) * (X[i][j] - mean_[j])])
        std     == Column([j \in 1..w |-> ISqrt(SumSeq(dev2(j), 1, n) \div n)])
    IN  [fitted |-> TRUE,
         mean_  |-> mean_,
         scale_ |-> Column([j \in 1..w |-> IF std[j] = 0 THEN 1 ELSE std[j]])]

\* StandardScaler.transform on one vector
scaler_transform(scaler, x) ==
    Column([j \in 1..Len(x) |-> ((x[j] - scaler.mean_[j]) * 1000) \div scaler.scale_[j]])

(***************************************************************************)
(* Regressor.  RandomForestRegressor is library code; it is modelled by    *)
(* one regression tree of depth 1 on the scaled prev_day_kwh column,       *)
(* grown under the forest's min_samples_split and min_samples_leaf: a      *)
(* prediction is the mean target of a leaf of training rows.               *)
(***************************************************************************)
min_samples_split == 5

min_samples_leaf == 2

\* the column the tree splits on: prev_day_kwh
SplitColumn == CHOOSE j \in 1..Len(feature_cols) : feature_cols[j] = "prev_day_kwh"

\* RandomForestRegressor(...).fit(X_train_scaled, y_train)
model_fit(Xs, y) ==
    LET n     == Len(y)
        left  == SortedSeq({i \in 1..n : Xs[i][SplitColumn] <= 0})
        right == SortedSeq({i \in 1..n : Xs[i][SplitColumn] > 0})
        ys(ix) == Column([k \in 1..Len(ix) |-> y[ix[k]]])
    IN  IF /\ n >= min_samples_split
           /\ Len(left) >= min_samples_leaf
           /\ Len(right) >= min_samples_leaf
        THEN [split |-> TRUE,
              lo |-> MeanSeq(ys(left), 1, Len(left)),
              hi |-> MeanSeq(ys(right), 1, Len(right))]
        ELSE [split |-> FALSE, lo |-> MeanSeq(y, 1, n), hi |-> MeanSeq(y, 1, n)]

\* model.predict on one scaled vector
model_predict(model, xs) ==
    IF model.split /\ xs[SplitColumn] > 0 THEN model.hi ELSE model.lo

(***************************************************************************)
(* EnergyPredictor: the object's fields and its methods as functions from  *)
(* the fields before the call to the fields after it and the outcome.      *)
(***************************************************************************)
NoModel == [split |-> FALSE, lo |-> -1, hi |-> -1]

\* EnergyPredictor.__init__
NewPredictor ==
    [model          |-> NoModel,
     scaler         |-> NewScaler,
     label_encoders |-> <<>>,
     feature_names  |-> <<>>,
     is_trained     |-> FALSE]

\* train_test_split(test_size=0.2, shuffle=False): the number of test rows
TestRows(n) == (n + 4) \div 5

\* a split that holds out the oldest rows and trains on the most recent
train_test_split_oldest(n) ==
    [train |-> Column([k \in 1..(n - TestRows(n)) |-> TestRows(n) + k]),
     test  |-> Column([k \in 1..TestRows(n) |-> k])]

\* train_test_split(X, y, test_size=0.2, random_state=42, shuffle=False) on
\* n rows: the row positions of the training and of the test set
train_test_split(n) ==
    [train |-> Column([k \in 1..(n - TestRows(n)) |-> k]),
     test  |-> Column([k \in 1..TestRows(n) |-> n - TestRows(n) + k])]

\* EnergyPredictor.train: [error, self]
train(self, df) ==
    LET daily   == aggregate_daily(df)
        named   == [self EXCEPT !.feature_names = feature_cols]
        n       == Len(daily.rows)
        split   == train_test_split(n)
        n_train == Len(split.train)
        X       == SelectColumns(daily.rows, feature_cols)
        X_train == Column([i \in 1..n_train |-> X[split.train[i]]])
        y_train == Column([i \in 1..n_train |-> daily.rows[split.train[i]].total_kwh])
        fitted  == scaler_fit(X_train)
        scaled  == Column([i \in 1..n_train |-> scaler_transform(fitted, X_train[i])])
    IN  IF daily.error # "" THEN [error |-> daily.error, self |-> self]
        ELSE IF n = 0 \/ n_train = 0 THEN [error |-> "ValueError", self |-> named]
        ELSE [error |-> "",
              self  |-> [named EXCEPT !.scaler = fitted,
                                      !.model = model_fit(scaled, y_train),
                                      !.is_trained = TRUE]]

\* the features dict with the last observed total as prev_day_kwh at
\* every step
StepFeaturesLastObserved(daily, pred_date, day, predictions) ==
    LET n      == Len(daily)
        total  == Column([i \in 1..n |-> daily[i].total_kwh])
        uses   == Column([i \in 1..n |-> daily[i].num_uses])
        first  == Max(1, n - 29)
    IN  [day_of_week     |-> dayofweek(pred_date),
         day_of_month    |-> day_of_month(pred_date),
         month           |-> month_of(pred_date),
         is_weekend      |-> is_weekend(pred_date),
         num_uses        |-> MeanSeq(uses, first, n),
         prev_day_kwh    |-> total[n],
         prev_week_kwh   |-> IF n >= 7 THEN total[n - 6] ELSE MeanSeq(total, 1, n),
         avg_last_7days  |-> MeanSeq(total, Max(first, n - 6), n),
         avg_last_30days |-> MeanSeq(total, first, n)]

\* StepFeatures with the two trailing means taken over the observed totals
\* followed by the predictions made so far
StepFeaturesRollingMeans(daily, pred_date, day, predictions) ==
    LET n      == Len(daily)
        m      == n + Len(predictions)
        total  == Column([i \in 1..n |-> daily[i].total_kwh])
        totalx == Column([i \in 1..m |-> IF i <= n THEN daily[i].total_kwh
                                         ELSE predictions[i - n].predicted_kwh])
        uses   == Column([i \in 1..n |-> daily[i].num_uses])
        first  == Max(1, n - 29)
    IN  [day_of_week     |-> dayofweek(pred_date),
         day_of_month    |-> day_of_month(pred_date),
         month           |-> month_of(pred_date),
         is_weekend      |-> is_weekend(pred_date),
         num_uses        |-> MeanSeq(uses, first, n),
         prev_day_kwh    |-> totalx[m],
         prev_week_kwh   |-> IF n >= 7 THEN total[n - 6] ELSE MeanSeq(total, 1, n),
         avg_last_7days  |-> MeanSeq(totalx, Max(1, m - 6), m),
         avg_last_30days |-> MeanSeq(totalx, Max(1, m - 29), m)]

\* the features dict of one forecast step; NaT's accessors do not arise:
\* the step is built only for a history with at least one daily row
StepFeatures(daily, pred_date, day, predictions) ==
    LET n      == Len(daily)
        total  == Column([i \in 1..n |-> daily[i].total_kwh])
        uses   == Column([i \in 1..n |-> daily[i].num_uses])
        first  == Max(1, n - 29)
    IN  [day_of_week     |-> dayofweek(pred_date),
         day_of_month    |-> day_of_month(pred_date),
         month           |-> month_of(pred_date),
         is_weekend      |-> is_weekend(pred_date),
         num_uses        |-> MeanSeq(uses, first, n),
         prev_day_kwh    |-> IF day = 1 THEN total[n]
                             ELSE predictions[Len(predictions)].predicted_kwh,
         prev_week_kwh   |-> IF n >= 7 THEN total[n - 6] ELSE MeanSeq(total, 1, n),
         avg_last_7days  |-> MeanSeq(total, Max(first, n - 6), n),
         avg_last_30days |-> MeanSeq(total, first, n)]

\* ForecastStep with the cost taken from the rounded energy
ForecastStepCostOfRounded(self, daily, day, tariff_rate, predictions) ==
    LET pred_date == daily[Len(daily)].date + day
        features  == StepFeatures(daily, pred_date, day, predictions)
        X_pred    == Column([j \in 1..Len(self.feature_names) |->
                                features[self.feature_names[j]]])
        predicted_kwh  ==
            RoundHalfEven(model_predict(self.model, scaler_transform(self.scaler, X_pred)), 10)
        predicted_cost == predicted_kwh * tariff_rate
    IN  IF Len(daily) = 0 THEN [error |-> "IndexError"]
        ELSE IF pred_date > TimestampMaxOrd THEN [error |-> "OutOfBoundsDatetime"]
        ELSE IF ~self.scaler.fitted \/ self.model = NoModel THEN [error |-> "NotFittedError"]
        ELSE [error |-> "",
              point |-> [date             |-> pred_date,
                         predicted_kwh    |-> predicted_kwh,
                         predicted_cost   |-> RoundHalfEven(predicted_cost, 100000) \div 100000,
                         confidence_score |-> 85]]

\* the body of one iteration of the forecast loop: [error, point]
ForecastStep(self, daily, day, tariff_rate, predictions) ==
    LET pred_date == daily[Len(daily)].date + day
        features  == StepFeatures(daily, pred_date, day, predictions)
        X_pred    == Column([j \in 1..Len(self.feature_names) |->
                                features[self.feature_names[j]]])
        predicted_kwh  == model_predict(self.model, scaler_transform(self.scaler, X_pred))
        predicted_cost == predicted_kwh * tariff_rate
    IN  IF Len(daily) = 0 THEN [error |-> "IndexError"]
        ELSE IF pred_date > TimestampMaxOrd THEN [error |-> "OutOfBoundsDatetime"]
        ELSE IF ~self.scaler.fitted \/ self.model = NoModel THEN [error |-> "NotFittedError"]
        ELSE [error |-> "",
              point |-> [date             |-> pred_date,
                         predicted_kwh    |-> RoundHalfEven(predicted_kwh, 10),
                         predicted_cost   |-> RoundHalfEven(predicted_cost, 100000) \div 100000,
                         confidence_score |-> 85]]

RECURSIVE ForecastLoopShort(_, _, _, _, _, _)
\* ForecastLoop over range(1, days): one iteration short
ForecastLoopShort(self, daily, days, tariff_rate, day, predictions) ==
    IF day >= days THEN [error |-> "", points |-> predictions]
    ELSE LET step == ForecastStep(self, daily, day, tariff_rate, predictions)
         IN  IF step.error # "" THEN [error |-> step.error, points |-> <<>>]
             ELSE ForecastLoopShort(self, daily, days, tariff_rate, day + 1,
                                    Append(predictions, step.point))

RECURSIVE ForecastLoopPartial(_, _, _, _, _, _)
\* ForecastLoop that catches a failing step and returns the points so far
ForecastLoopPartial(self, daily, days, tariff_rate, day, predictions) ==
    IF day > days THEN [error |-> "", points |-> predictions]
    ELSE LET step == ForecastStep(self, daily, day, tariff_rate, predictions)
         IN  IF step.error # "" THEN [error |-> step.error, points |-> predictions]
             ELSE ForecastLoopPartial(self, daily, days, tariff_rate, day + 1,
                                      Append(predictions, step.point))

RECURSIVE ForecastLoop(_, _, _, _, _, _)
\* for day in range(day, days + 1): an exception leaves the loop and the
\* function, and the local list predictions is lost with the frame
ForecastLoop(self, daily, days, tariff_rate, day, predictions) ==
    IF day > days THEN [error |-> "", points |-> predictions]
    ELSE LET step == ForecastStep(self, daily, day, tariff_rate, predictions)
         IN  IF step.error # "" THEN [error |-> step.error, points |-> <<>>]
             ELSE ForecastLoop(self, daily, days, tariff_rate, day + 1,
                               Append(predictions, step.point))

\* predict_next_days without the is_trained guard
predict_next_days_unguarded(self, historical_df, days, tariff_rate) ==
    LET daily == aggregate_daily(historical_df)
    IN  IF daily.error # "" THEN [error |-> daily.error, points |-> <<>>]
        ELSE ForecastLoop(self, daily.rows, days, tariff_rate, 1, <<>>)

\* EnergyPredictor.predict_next_days: [error, points]
predict_next_days(self, historical_df, days, tariff_rate) ==
    IF ~self.is_trained THEN [error |-> "ValueError", points |-> <<>>]
    ELSE LET daily == aggregate_daily(historical_df)
         IN  IF daily.error # "" THEN [error |-> daily.error, points |-> <<>>]
             ELSE ForecastLoop(self, daily.rows, days, tariff_rate, 1, <<>>)

\* days=30 of predict_monthly
MonthDays == 30

\* predict_monthly with the monthly cost priced from the monthly energy
predict_monthly_priced(self, historical_df, tariff_rate) ==
    LET daily_predictions == predict_next_days(self, historical_df, MonthDays, tariff_rate)
        pts  == daily_predictions.points
        kwh  == Column([i \in 1..Len(pts) |-> pts[i].predicted_kwh])
        monthly_kwh == SumSeq(kwh, 1, Len(kwh))
    IN  IF daily_predictions.error # ""
        THEN [error |-> daily_predictions.error, predicted_monthly_kwh |-> 0,
              predicted_monthly_cost |-> 0, daily_predictions |-> <<>>]
        ELSE [error |-> "",
              predicted_monthly_kwh  |-> RoundHalfEven(monthly_kwh, 1000),
              predicted_monthly_cost |->
                  RoundHalfEven(monthly_kwh * tariff_rate, 100000) \div 100000,
              daily_predictions      |-> pts]

\* EnergyPredictor.predict_monthly: [error, monthly kwh, monthly cost, points]
predict_monthly(self, historical_df, tariff_rate) ==
    LET daily_predictions == predict_next_days(self, historical_df, MonthDays, tariff_rate)
        pts  == daily_predictions.points
        kwh  == Column([i \in 1..Len(pts) |-> pts[i].predicted_kwh])
        cost == Column([i \in 1..Len(pts) |-> pts[i].predicted_cost])
    IN  IF daily_predictions.error # ""
        THEN [error |-> daily_predictions.error, predicted_monthly_kwh |-> 0,
              predicted_monthly_cost |-> 0, daily_predictions |-> <<>>]
        ELSE [error |-> "",
              predicted_monthly_kwh  |-> RoundHalfEven(SumSeq(kwh, 1, Len(kwh)), 1000),
              predicted_monthly_cost |-> SumSeq(cost, 1, Len(cost)),
              daily_predictions      |-> pts]

(***************************************************************************)
(* Model store.  joblib.dump writes the dict model_data as a sequence of   *)
(* <<key, value>> entries; joblib.load rebuilds the dict from the entries. *)
(* trained_at is written and only printed; it is left out.                 *)
(***************************************************************************)
\* no file at os.path.join(model_path, 'energy_model.pkl')
NoFile == <<>>

\* joblib.dump(model_data, filepath): the file's contents
joblib_dump(model_data) ==
    LET keys == <<"model", "scaler", "label_encoders", "feature_names">>
    IN  Column([i \in 1..Len(keys) |-> <<keys[i], model_data[keys[i]]>>])

\* joblib.load(filepath): the dict, by key
joblib_load(file) ==
    [k \in {file[i][1] : i \in 1..Len(file)} |->
        (file[CHOOSE i \in 1..Len(file) : file[i][1] = k])[2]]

\* save_model without the is_trained check
save_model_unguarded(self, file) ==
    [error |-> "",
     file  |-> joblib_dump([model          |-> self.model,
                            scaler         |-> self.scaler,
                            label_encoders |-> self.label_encoders,
                            feature_names  |-> self.feature_names])]

\* EnergyPredictor.save_model: [error, file]
save_model(self, file) ==
    IF ~self.is_trained THEN [error |-> "ValueError", file |-> file]
    ELSE [error |-> "",
          file  |-> joblib_dump([model          |-> self.model,
                                 scaler         |-> self.scaler,
                                 label_encoders |-> self.label_encoders,
                                 feature_names  |-> self.feature_names])]

\* load_model that leaves self.scaler as it was
load_model_keeps_scaler(self, file) ==
    IF file = NoFile THEN [error |-> "FileNotFoundError", self |-> self]
    ELSE LET model_data == joblib_load(file)
         IN  [error |-> "",
              self  |-> [model          |-> model_data["model"],
                         scaler         |-> self.scaler,
                         label_encoders |-> model_data["label_encoders"],
                         feature_names  |-> model_data["feature_names"],
                         is_trained     |-> TRUE]]

\* load_model that drops the model in memory before it looks for the file
load_model_clears_first(self, file) ==
    IF file = NoFile
    THEN [error |-> "FileNotFoundError",
          self  |-> [self EXCEPT !.model = NoModel, !.is_trained = FALSE]]
    ELSE LET model_data == joblib_load(file)
         IN  [error |-> "",
              self  |-> [model          |-> model_data["model"],
                         scaler         |-> model_data["scaler"],
                         label_encoders |-> model_data["label_encoders"],
                         feature_names  |-> model_data["feature_names"],
                         is_trained     |-> TRUE]]

\* load_model that leaves self.feature_names as it was
load_model_keeps_names(self, file) ==
    IF file = NoFile THEN [error |-> "FileNotFoundError", self |-> self]
    ELSE LET model_data == joblib_load(file)
         IN  [error |-> "",
              self  |-> [model          |-> model_data["model"],
                         scaler         |-> model_data["scaler"],
                         label_encoders |-> model_data["label_encoders"],
                         feature_names  |-> self.feature_names,
                         is_trained     |-> TRUE]]

\* EnergyPredictor.load_model: [error, self]
load_model(self, file) ==
    IF file = NoFile THEN [error |-> "FileNotFoundError", self |-> self]
    ELSE LET model_data == joblib_load(file)
         IN  [error |-> "",
              self  |-> [model          |-> model_data["model"],
                         scaler         |-> model_data["scaler"],
                         label_encoders |-> model_data["label_encoders"],
                         feature_names  |-> model_data["feature_names"],
                         is_trained     |-> TRUE]]

(***************************************************************************)
(* create_features.  Appliance names are numbered in alphabetical order,   *)
(* so a LabelEncoder's classes_ is the ascending sequence of the numbers   *)
(* it was fitted on and a label is a position in it (from 0).              *)
(***************************************************************************)
\* LabelEncoder.fit: classes_
encoder_fit(rows) == SortedSeq({rows[i].appliance_name : i \in 1..Len(rows)})

\* the label of a name: its class index, -1 for a name not in classes_
encoder_label(classes, name) ==
    IF \E k \in 1..Len(classes) : classes[k] = name
    THEN (CHOOSE k \in 1..Len(classes) : classes[k] = name) - 1
    ELSE -1

\* EnergyPredictor.create_features: [error, self, rows]
create_features(self, df) ==
    IF ~df.columns THEN [error |-> "KeyError", self |-> self, rows |-> <<>>]
    ELSE
    LET classes == IF self.label_encoders = <<>> THEN encoder_fit(df.rows)
                   ELSE self.label_encoders[1]
        hour(r) == r.timestamp % 24
        date(r) == DateOf(r.timestamp)
    IN  [error |-> "",
         self  |-> [self EXCEPT !.label_encoders = <<classes>>],
         rows  |-> Column([i \in 1..Len(df.rows) |->
            [timestamp         |-> df.rows[i].timestamp,
             appliance_name    |-> df.rows[i].appliance_name,
             power_usage_kwh   |-> df.rows[i].power_usage_kwh,
             cost              |-> df.rows[i].cost,
             hour              |-> hour(df.rows[i]),
             day_of_week       |-> dayofweek(date(df.rows[i])),
             day_of_month      |-> day_of_month(date(df.rows[i])),
             month             |-> month_of(date(df.rows[i])),
             is_weekend        |-> is_weekend(date(df.rows[i])),
             is_peak_hour      |-> IF hour(df.rows[i]) >= 17 /\ hour(df.rows[i]) <= 21
                                   THEN 1 ELSE 0,
             appliance_encoded |-> encoder_label(classes, df.rows[i].appliance_name)]])]

(***************************************************************************)
(* Tables as objects.  A method receives a reference to the caller's       *)
(* table; objects[1] is that table, and ref is the object the method's     *)
(* local name df is bound to.                                              *)
(***************************************************************************)
\* `df = df`: the local name stays bound to the object it was bound to
df_rebind(objects, ref) == [objects |-> objects, ref |-> ref]

\* df = df.copy(): a new object with the contents of objects[ref], and the
\* local name bound to the new object
df_copy(objects, ref) ==
    [objects |-> Append(objects, objects[ref]), ref |-> Len(objects) + 1]

\* the objects after aggregate_daily(df): the column date is assigned to
\* the table that df is bound to (no assignment is reached on a KeyError)
aggregate_daily_objects(df) ==
    LET c == df_copy(<<df>>, 1)
    IN  IF ~df.columns THEN c.objects
        ELSE [c.objects EXCEPT ![c.ref] =
                DataFrame(Column([i \in 1..Len(@.rows) |->
                    [timestamp       |-> @.rows[i].timestamp,
                     appliance_name  |-> @.rows[i].appliance_name,
                     power_usage_kwh |-> @.rows[i].power_usage_kwh,
                     cost            |-> @.rows[i].cost,
                     date            |-> DateOf(@.rows[i].timestamp)]]))]

\* the objects after create_features(df): the feature columns are assigned
\* to the table that df is bound to, which is the table returned
create_features_objects(self, df) ==
    LET c == df_copy(<<df>>, 1)
        r == create_features(self, df)
    IN  IF r.error # "" THEN c.objects
        ELSE [c.objects EXCEPT ![c.ref] = DataFrame(r.rows)]

\* the caller's table after a method of the predictor was called with it:
\* train and the predictions hand it to aggregate_daily, the predictions
\* after the is_trained check
TableAfter(op, self, df) ==
    CASE op = "create_features" -> create_features_objects(self, df)[1]
      [] op \in {"aggregate_daily", "train"} -> aggregate_daily_objects(df)[1]
      [] op \in {"predict_next_days", "predict_monthly"} ->
            IF self.is_trained THEN aggregate_daily_objects(df)[1] ELSE df

(***************************************************************************)
(* Inputs.  An event is a row of energy_data as get_energy_data returns    *)
(* it; its cost was set to energy * tariff when it was written.            *)
(***************************************************************************)
Ev(date, hour, appliance, kwh) ==
    [timestamp       |-> date * 24 + hour,
     appliance_name  |-> appliance,
     power_usage_kwh |-> kwh,
     cost            |-> kwh * 7]

\* a user without records: the store returns no rows
HEmpty == get_data_as_dataframe(<<>>)

\* a table with the columns and no rows, built by a caller of the core
HNoRows == DataFrame(<<>>)

\* seven events on one date
HOneDay ==
    get_data_as_dataframe(Column([j \in 1..7 |-> Ev(3, 2 * j + 5, 1 + (j % 2), 10 * j + 3)]))

\* three days, newest first; daily totals 1070, 1074, 900
HThree ==
    get_data_as_dataframe(
        <<Ev(2, 0, 1, 900), Ev(1, 23, 2, 1074), Ev(0, 19, 1, 570), Ev(0, 1, 2, 500)>>)

\* exactly seven days, oldest first
HSeven ==
    get_data_as_dataframe(
        <<Ev(0, 8, 1, 1000), Ev(1, 9, 2, 1500), Ev(1, 20, 3, 1500), Ev(2, 7, 1, 1200),
          Ev(3, 18, 2, 2800), Ev(4, 6, 1, 1100), Ev(5, 21, 3, 2900), Ev(6, 12, 1, 1000)>>)

\* nine days with a missing day, newest first
HNine ==
    get_data_as_dataframe(
        <<Ev(9, 10, 1, 2075), Ev(8, 17, 2, 1310), Ev(7, 3, 1, 2640), Ev(6, 22, 3, 1185),
          Ev(5, 13, 1, 2900), Ev(3, 16, 2, 700), Ev(3, 5, 1, 633), Ev(2, 11, 1, 2455),
          Ev(1, 20, 3, 1017), Ev(0, 9, 1, 2210)>>)

\* two days that end one day before the last date a Timestamp can hold
HLate ==
    get_data_as_dataframe(
        <<Ev(TimestampMaxOrd - 1, 4, 1, 600), Ev(TimestampMaxOrd - 2, 15, 2, 400)>>)

Histories == {HEmpty, HNoRows, HOneDay, HThree, HSeven, HNine, HLate}

\* tariff rates: the default 0.12 of the predictor and the 7.00 of the routes
Tariffs == {12, 700}

\* the two predictors that share one model_path
Instances == {"a", "b"}

\* the users of the application, by user_id
Users == {1, 2}

\* users.tariff_rate of a user
UserTariff(user_id) == IF user_id = 1 THEN 700 ELSE 12

\* energy_data when the application starts: the rows of each user in the
\* order they were inserted
InitialStore ==
    [user_id \in Users |->
        IF user_id = 1 THEN HSeven.rows
        ELSE <<Ev(0, 9, 1, 2210), Ev(1, 20, 3, 1017), Ev(2, 11, 1, 2455),
               Ev(3, 5, 1, 633), Ev(3, 16, 2, 700), Ev(5, 13, 1, 2900)>>]

(***************************************************************************)
(* State.  predictor[p] holds the fields of predictor p, disk the file     *)
(* energy_model.pkl under model_path, store the table energy_data by user, *)
(* last the latest call with its arguments, as the caller holds them after *)
(* the call, and what it returned or raised.  requests[t] holds the route  *)
(* thread t is serving, with its locals and the statement it is at,        *)
(* session the session cookie of the browser, db the DatabaseConfig with   *)
(* the call of execute_query in progress.                                  *)
(***************************************************************************)
\* the worker threads of the development server (app.run, threaded)
Threads == {1, 2}

\* a thread that serves no request
IdleRequest ==
    [pc |-> "idle", op |-> "", user_id |-> 0, days |-> 0, decimal |-> FALSE,
     df |-> HEmpty, X_train |-> <<>>, y_train |-> <<>>, X_train_scaled |-> <<>>,
     calls |-> <<>>, status |-> 0, body |-> <<>>]

\* the session of a browser that sent no cookie: an empty dict
EmptySession == [key \in {} |-> 0]

\* DatabaseConfig.__init__ (connection is None), with no call in progress
NewDatabaseConfig ==
    [connection |-> "None", pc |-> "idle", fetch |-> FALSE, attempt |-> 0,
     executions |-> 0, connects |-> 0, refused |-> 0, result |-> "", raised |-> ""]

Call(op, p, df, days, tariff_rate, error, result) ==
    [op |-> op, p |-> p, df |-> df, days |-> days, tariff_rate |-> tariff_rate,
     error |-> error, result |-> result]

Init ==
    /\ predictor = [p \in Instances |-> NewPredictor]
    /\ disk = NoFile
    /\ store = InitialStore
    /\ requests = [t \in Threads |-> IdleRequest]
    /\ session = EmptySession
    /\ db = NewDatabaseConfig
    /\ last = Call("init", "a", HEmpty, 0, 0, "", <<>>)

AggregateDaily(H) ==
    \E df \in H :
        LET r == aggregate_daily(df)
        IN  /\ last' = Call("aggregate_daily", "a", TableAfter("aggregate_daily", predictor["a"], df),
                            0, 0, r.error, r.rows)
            /\ UNCHANGED <<predictor, disk, store, requests, session, db>>

CreateFeatures(p, H) ==
    \E df \in H :
        LET r == create_features(predictor[p], df)
        IN  /\ predictor' = [predictor EXCEPT ![p] = r.self]
            /\ last' = Call("create_features", p, TableAfter("create_features", predictor[p], df),
                            0, 0, r.error, r.rows)
            /\ UNCHANGED <<disk, store, requests, session, db>>

Train(p, H) ==
    \E df \in H :
        LET r == train(predictor[p], df)
        IN  /\ predictor' = [predictor EXCEPT ![p] = r.self]
            /\ last' = Call("train", p, TableAfter("train", predictor[p], df), 0, 0, r.error, <<>>)
            /\ UNCHANGED <<disk, store, requests, session, db>>

PredictNextDays(p, H, D, T) ==
    \E df \in H, days \in D, tariff_rate \in T :
        LET r == predict_next_days(predictor[p], df, days, tariff_rate)
        IN  /\ last' = Call("predict_next_days", p, TableAfter("predict_next_days", predictor[p], df),
                            days, tariff_rate, r.error, r.points)
            /\ UNCHANGED <<predictor, disk, store, requests, session, db>>

PredictMonthly(p, H, T) ==
    \E df \in H, tariff_rate \in T :
        LET r == predict_monthly(predictor[p], df, tariff_rate)
        IN  /\ last' = Call("predict_monthly", p, TableAfter("predict_monthly", predictor[p], df),
                            MonthDays, tariff_rate, r.error,
                            [predicted_monthly_kwh  |-> r.predicted_monthly_kwh,
                             predicted_monthly_cost |-> r.predicted_monthly_cost,
                             daily_predictions      |-> r.daily_predictions])
            /\ UNCHANGED <<predictor, disk, store, requests, session, db>>

SaveModel(p) ==
    LET r == save_model(predictor[p], disk)
    IN  /\ disk' = r.file
        /\ last' = Call("save_model", p, HEmpty, 0, 0, r.error, <<>>)
        /\ UNCHANGED <<predictor, store, requests, session, db>>

LoadModel(p) ==
    LET r == load_model(predictor[p], disk)
    IN  /\ predictor' = [predictor EXCEPT ![p] = r.self]
        /\ last' = Call("load_model", p, HEmpty, 0, 0, r.error, <<>>)
        /\ UNCHANGED <<disk, store, requests, session, db>>

(***************************************************************************)
(* Spec: the life cycle of two predictors over one model file.             *)
(***************************************************************************)
Next ==
    \E p \in Instances :
        \/ AggregateDaily({HEmpty, HThree})
        \/ CreateFeatures(p, {HEmpty, HThree})
        \/ Train(p, {HEmpty, HOneDay, HThree, HSeven})
        \/ PredictNextDays(p, {HOneDay, HThree}, {MaxHorizon}, {700})
        \/ PredictMonthly(p, {HThree}, {700})
        \/ SaveModel(p)
        \/ LoadModel(p)

Spec == Init /\ [][Next]_vars

(***************************************************************************)
(* SpecForecast: one predictor, trained and asked for forecasts over every *)
(* history, horizon and tariff of the bounds.                              *)
(***************************************************************************)
NextForecast ==
    \/ AggregateDaily(Histories)
    \/ Train("a", Histories)
    \/ PredictNextDays("a", Histories, 0..MaxHorizon, Tariffs)
    \/ PredictMonthly("a", Histories, Tariffs)

SpecForecast == Init /\ [][NextForecast]_vars

(***************************************************************************)
(* SpecAgg: aggregate_daily on its own, over histories of up to MaxAggDays *)
(* days, with and without missing days, oldest or newest first.            *)
(***************************************************************************)
RECURSIVE AggRows(_, _, _)
\* the events of days 1..n of pattern s, oldest first; with gap, two dates
\* after the third day have no events
AggRows(n, s, gap) ==
    IF n = 0 THEN <<>>
    ELSE LET date == n - 1 + (IF gap /\ n > 3 THEN 2 ELSE 0)
             one  == <<Ev(date, (7 * n + s) % 24, 1 + (n % 3), 100 + ((n * (s + 2)) % 11) * 13)>>
             two  == IF (n + s) % 2 = 0 THEN <<Ev(date, (3 * n) % 24, 1, 50 + n)>> ELSE <<>>
         IN  AggRows(n - 1, s, gap) \o one \o two

Reverse(rows) == Column([i \in 1..Len(rows) |-> rows[Len(rows) + 1 - i]])

AggInputs ==
    {get_data_as_dataframe(IF desc THEN Reverse(AggRows(n, s, gap)) ELSE AggRows(n, s, gap)) :
        n \in 0..MaxAggDays, s \in 1..3, gap \in BOOLEAN, desc \in BOOLEAN}

\* the history to aggregate is drawn at the start and held as the argument
\* of the call to come
InitAgg ==
    /\ predictor = [p \in Instances |-> NewPredictor]
    /\ disk = NoFile
    /\ store = InitialStore
    /\ requests = [t \in Threads |-> IdleRequest]
    /\ session = EmptySession
    /\ db = NewDatabaseConfig
    /\ last \in {Call("init", "a", df, 0, 0, "", <<>>) : df \in AggInputs}

NextAgg == last.op = "init" /\ AggregateDaily({last.df})

SpecAgg == InitAgg /\ [][NextAgg]_vars

(***************************************************************************)
(* SpecHorizon: one predictor trained on a history and asked for forecasts *)
(* of it, over histories shorter than a week, longer than a week and       *)
(* longer than the 30 days of recent_data, with and without missing days.  *)
(***************************************************************************)
\* in pattern 2 the first day is a busy one: 30 more events
BusyFirstDay(s) ==
    IF s = 2 THEN Column([i \in 1..30 |-> Ev(0, i % 24, 1 + (i % 3), 10 + i)]) ELSE <<>>

HorizonInputs ==
    {get_data_as_dataframe(AggRows(n, s, gap) \o BusyFirstDay(s)) :
        n \in {6, 8, MaxAggDays - 2, MaxAggDays}, s \in 1..2, gap \in BOOLEAN}

InitHorizon ==
    /\ predictor = [p \in Instances |-> NewPredictor]
    /\ disk = NoFile
    /\ store = InitialStore
    /\ requests = [t \in Threads |-> IdleRequest]
    /\ session = EmptySession
    /\ db = NewDatabaseConfig
    /\ last \in {Call("init", "a", df, 0, 0, "", <<>>) : df \in HorizonInputs}

NextHorizon ==
    \/ Train("a", {last.df})
    \/ PredictNextDays("a", {last.df}, 1..MaxHorizon, {12, 700})

SpecHorizon == InitHorizon /\ [][NextHorizon]_vars

(***************************************************************************)
(* SpecServe: the prediction routes of the application.  Every request     *)
(* runs on the one predictor "a" that app.py builds when it is imported    *)
(* and on the one file energy_model.pkl; the user of a request is the      *)
(* user_id of its session.  A response is [user_id, status, body].         *)
(***************************************************************************)
\* DatabaseConfig.get_energy_data: the rows of the user, ORDER BY timestamp
\* DESC (the timestamps of a user's rows are distinct)
get_energy_data(data, user_id) ==
    LET rows == data[user_id]
        ts   == SortedSeq({rows[i].timestamp : i \in 1..Len(rows)})
    IN  Reverse(Column([k \in 1..Len(ts) |->
            rows[CHOOSE i \in 1..Len(rows) : rows[i].timestamp = ts[k]]]))

\* add_energy_record of app.py with DatabaseConfig.add_energy_record: the
\* cost is power_usage_kwh * tariff_rate, and the row is inserted
add_energy_record(data, user_id, timestamp, appliance_name, power_usage_kwh) ==
    [data EXCEPT ![user_id] =
        Append(@, [timestamp       |-> timestamp,
                   appliance_name  |-> appliance_name,
                   power_usage_kwh |-> power_usage_kwh,
                   cost            |-> (power_usage_kwh * UserTariff(user_id)) \div 100])]

\* the records a user posts to /api/data/add, in the order of posting
NewRecords(user_id) ==
    IF user_id = 1 THEN <<Ev(7, 9, 2, 2600)>>
    ELSE <<Ev(6, 22, 3, 1185), Ev(7, 3, 1, 2640)>>

\* what a route hands back: the response, the table it read, and the
\* predictor and the file as the request leaves them
RouteResult(status, body, historical_df, self, file) ==
    [status |-> status, body |-> body, df |-> historical_df, self |-> self, file |-> file]

\* the except branch of the load-or-train block after predictor.train
\* returned or raised t: predictor.save_model() follows a training that
\* returned
train_then_save(t, file) ==
    IF t.error # "" THEN [error |-> t.error, self |-> t.self, file |-> file]
    ELSE [error |-> "", self |-> t.self, file |-> save_model(t.self, file).file]

\* the load-or-train block with a predictor that is loaded only when it
\* holds no model yet
load_or_train_cached(self, file, historical_df) ==
    IF self.is_trained THEN [error |-> "", self |-> self, file |-> file]
    ELSE IF load_model(self, file).error = ""
    THEN [error |-> "", self |-> load_model(self, file).self, file |-> file]
    ELSE train_then_save(train(self, historical_df), file)

\* a block that trains and saves in every request
load_or_train_always(self, file, historical_df) ==
    train_then_save(train(self, historical_df), file)

\* try: predictor.load_model() except: predictor.train(historical_df);
\* predictor.save_model(): [error, self, file]
load_or_train(self, file, historical_df) ==
    IF load_model(self, file).error = ""
    THEN [error |-> "", self |-> load_model(self, file).self, file |-> file]
    ELSE train_then_save(train(self, historical_df), file)

\* predict_daily from the call of predict_next_days on: r is what the call
\* returned or raised, m the outcome of the load-or-train block
predict_daily_answer(r, m, historical_df) ==
    IF r.error # "" THEN RouteResult(500, r.error, historical_df, m.self, m.file)
    ELSE RouteResult(200, r.points, historical_df, m.self, m.file)

\* predict_daily after the load-or-train block
predict_daily_forecast(m, historical_df, days, tariff_rate) ==
    IF m.error # "" THEN RouteResult(500, m.error, historical_df, m.self, m.file)
    ELSE predict_daily_answer(predict_next_days(m.self, historical_df, days, tariff_rate),
                              m, historical_df)

\* predict_daily after it read the user's table
predict_daily_on(self, file, historical_df, days, tariff_rate) ==
    IF ~historical_df.columns \/ Len(historical_df.rows) < 7
    THEN RouteResult(400, "Insufficient data", historical_df, self, file)
    ELSE predict_daily_forecast(load_or_train(self, file, historical_df),
                                historical_df, days, tariff_rate)

\* the route predict_daily: [status, body, df, self, file]
app_predict_daily(self, file, data, user_id, days) ==
    predict_daily_on(self, file, get_data_as_dataframe(get_energy_data(data, user_id)),
                     days, UserTariff(user_id))

\* predict_monthly from the call of predictor.predict_monthly on
predict_monthly_answer(r, m, historical_df) ==
    IF r.error # "" THEN RouteResult(500, r.error, historical_df, m.self, m.file)
    ELSE RouteResult(200, [predicted_monthly_kwh  |-> r.predicted_monthly_kwh,
                           predicted_monthly_cost |-> r.predicted_monthly_cost,
                           daily_predictions      |-> r.daily_predictions],
                     historical_df, m.self, m.file)

\* predict_monthly after the load-or-train block.  tariff_rate is
\* user['tariff_rate'] as the driver returns it: with a DECIMAL column
\* (decimal) the product predicted_kwh * tariff_rate of the first forecast
\* step raises TypeError unless the step fails before it; with a FLOAT
\* column it is a number
predict_monthly_forecast(m, historical_df, tariff_rate, decimal) ==
    IF m.error # "" THEN RouteResult(500, m.error, historical_df, m.self, m.file)
    ELSE IF decimal /\ Len(aggregate_daily(historical_df).rows) > 0
                    /\ aggregate_daily(historical_df).rows[
                           Len(aggregate_daily(historical_df).rows)].date
                          < TimestampMaxOrd
    THEN RouteResult(500, "TypeError", historical_df, m.self, m.file)
    ELSE predict_monthly_answer(predict_monthly(m.self, historical_df, tariff_rate),
                                m, historical_df)

\* predict_monthly after it read the user's table
predict_monthly_on(self, file, historical_df, tariff_rate, decimal) ==
    IF ~historical_df.columns
    THEN RouteResult(400, "Insufficient data", historical_df, self, file)
    ELSE predict_monthly_forecast(load_or_train(self, file, historical_df),
                                  historical_df, tariff_rate, decimal)

\* the route predict_monthly: [status, body, df, self, file]
app_predict_monthly(self, file, data, user_id, decimal) ==
    predict_monthly_on(self, file, get_data_as_dataframe(get_energy_data(data, user_id)),
                       UserTariff(user_id), decimal)

Response(user_id, status, body) ==
    [user_id |-> user_id, status |-> status, body |-> body]

RouteAddEnergyRecord(user_id) ==
    LET posted == Len(store[user_id]) - Len(InitialStore[user_id])
        record == NewRecords(user_id)[posted + 1]
    IN  /\ posted < Len(NewRecords(user_id))
        /\ store' = add_energy_record(store, user_id, record.timestamp,
                                      record.appliance_name, record.power_usage_kwh)
        /\ last' = Call("add_energy_record", "a", HEmpty, 0, 0, "",
                        Response(user_id, 201, "Record added successfully"))
        /\ UNCHANGED <<predictor, disk, requests, session, db>>

\* the end of a prediction route that ran for the user and hands back r:
\* the module's predictor and the file are as the route left them
Respond(op, user_id, days, r) ==
    /\ predictor' = [predictor EXCEPT !["a"] = r.self]
    /\ disk' = r.file
    /\ last' = Call(op, "a", r.df, days, UserTariff(user_id), "",
                    Response(user_id, r.status, r.body))
    /\ UNCHANGED <<store, requests, session, db>>

RoutePredictDaily(user_id, D) ==
    \E days \in D :
        Respond("predict_daily", user_id, days,
                app_predict_daily(predictor["a"], disk, store, user_id, days))

RoutePredictMonthly(user_id) ==
    \E decimal \in BOOLEAN :
        Respond("predict_monthly_route", user_id, MonthDays,
                app_predict_monthly(predictor["a"], disk, store, user_id, decimal))

NextServe ==
    \E user_id \in Users :
        \/ RouteAddEnergyRecord(user_id)
        \/ RoutePredictDaily(user_id, {1, MaxHorizon})
        \/ RoutePredictMonthly(user_id)

SpecServe == Init /\ [][NextServe]_vars

(***************************************************************************)
(* SpecRace: two prediction requests served by two threads of the          *)
(* development server on the module's one predictor.  A thread runs its    *)
(* route statement by statement; the statements of train that assign to    *)
(* the predictor (lines 141, 153, 157, 166, 167) are steps of their own,   *)
(* and X_train, y_train and X_train_scaled are locals of the thread.       *)
(* load_model, save_model and the forecast are taken as one step each.     *)
(***************************************************************************)
\* train up to the split, lines 132-150: [error, self, X_train, y_train]
train_prepare(self, df) ==
    LET daily   == aggregate_daily(df)
        named   == [self EXCEPT !.feature_names = feature_cols]
        n       == Len(daily.rows)
        split   == train_test_split(n)
        n_train == Len(split.train)
        X       == SelectColumns(daily.rows, feature_cols)
    IN  IF daily.error # ""
        THEN [error |-> daily.error, self |-> self, X_train |-> <<>>, y_train |-> <<>>]
        ELSE IF n = 0 \/ n_train = 0
        THEN [error |-> "ValueError", self |-> named, X_train |-> <<>>, y_train |-> <<>>]
        ELSE [error   |-> "",
              self    |-> named,
              X_train |-> Column([i \in 1..n_train |-> X[split.train[i]]]),
              y_train |-> Column([i \in 1..n_train |-> daily.rows[split.train[i]].total_kwh])]

\* X_train_scaled = self.scaler.fit_transform(X_train): the scaler of the
\* predictor is refitted in place
train_scale(self, X_train) ==
    [self           |-> [self EXCEPT !.scaler = scaler_fit(X_train)],
     X_train_scaled |-> Column([i \in 1..Len(X_train) |->
                                   scaler_transform(scaler_fit(X_train), X_train[i])])]

\* self.model = RandomForestRegressor(...): a regressor that is not fitted
train_new_model(self) == [self EXCEPT !.model = NoModel]

\* self.model.fit(X_train_scaled, y_train): fits the regressor self.model
\* refers to when the statement runs
train_fit(self, X_train_scaled, y_train) ==
    [self EXCEPT !.model = model_fit(X_train_scaled, y_train)]

\* self.is_trained = True
train_flag(self) == [self EXCEPT !.is_trained = TRUE]

\* self.model.predict(X_train_scaled) of the evaluation
train_evaluate(self) == IF self.model = NoModel THEN "NotFittedError" ELSE ""

\* the load-or-train block after predictor.load_model() returned or raised:
\* the statement the thread runs next
after_load_predicts(error) == "predict"

after_load(error) == IF error = "" THEN "predict" ELSE "train"

RequestOps == {"predict_daily", "predict_monthly_route"}

\* the guard of the route on the table it read
InsufficientData(op, historical_df) ==
    IF op = "predict_daily"
    THEN ~historical_df.columns \/ Len(historical_df.rows) < 7
    ELSE ~historical_df.columns

RECURSIVE Posted(_, _, _)
\* the table after the user posted the first k of the user's records
Posted(data, user_id, k) ==
    IF k = 0 THEN data
    ELSE LET record == NewRecords(user_id)[k]
         IN  add_energy_record(Posted(data, user_id, k - 1), user_id, record.timestamp,
                               record.appliance_name, record.power_usage_kwh)

\* both users have posted records; user 2 has at least 7
RaceStores == {Posted(Posted(InitialStore, 1, k), 2, 2) : k \in 0..1}

InitRace ==
    /\ predictor = [p \in Instances |-> NewPredictor]
    /\ disk = NoFile
    /\ store \in RaceStores
    /\ requests = [t \in Threads |-> IdleRequest]
    /\ session = EmptySession
    /\ db = NewDatabaseConfig
    /\ last = Call("init", "a", HEmpty, 0, 0, "", <<>>)

Called(req, op, error) == [req EXCEPT !.calls = Append(@, [op |-> op, error |-> error])]

Finish(req, status, body) == [req EXCEPT !.pc = "done", !.status = status, !.body = body]

\* thread t goes on as req, with the predictor and the file as given
Proceed(t, req, self, file) ==
    /\ requests' = [requests EXCEPT ![t] = req]
    /\ predictor' = [predictor EXCEPT !["a"] = self]
    /\ disk' = file
    /\ UNCHANGED <<last, store, session, db>>

\* the route up to the load-or-train block
Begin(t) ==
    /\ requests[t].pc = "idle"
    /\ \E user_id \in Users, op \in RequestOps, decimal \in BOOLEAN :
          LET historical_df == get_data_as_dataframe(get_energy_data(store, user_id))
              req == [IdleRequest EXCEPT !.op = op, !.user_id = user_id, !.df = historical_df,
                                         !.decimal = decimal,
                                         !.days = IF op = "predict_daily" THEN MaxHorizon
                                                  ELSE MonthDays]
          IN  /\ op = "predict_daily" => ~decimal
              /\ Proceed(t, IF InsufficientData(op, historical_df)
                            THEN Finish(req, 400, "Insufficient data")
                            ELSE [req EXCEPT !.pc = "load"],
                         predictor["a"], disk)

LoadStep(t, r) ==
    Proceed(t, [Called(requests[t], "load_model", r.error) EXCEPT !.pc = after_load(r.error)],
            r.self, disk)

Load(t) ==
    /\ requests[t].pc = "load"
    /\ LoadStep(t, load_model(predictor["a"], disk))

TrainPrepareStep(t, r) ==
    Proceed(t, IF r.error # ""
               THEN Finish(Called(requests[t], "train", r.error), 500, r.error)
               ELSE [requests[t] EXCEPT !.pc = "scale", !.X_train = r.X_train,
                                        !.y_train = r.y_train],
            r.self, disk)

TrainPrepare(t) ==
    /\ requests[t].pc = "train"
    /\ TrainPrepareStep(t, train_prepare(predictor["a"], requests[t].df))

TrainScaleStep(t, r) ==
    Proceed(t, [requests[t] EXCEPT !.pc = "new_model", !.X_train_scaled = r.X_train_scaled],
            r.self, disk)

TrainScale(t) ==
    /\ requests[t].pc = "scale"
    /\ TrainScaleStep(t, train_scale(predictor["a"], requests[t].X_train))

TrainNewModel(t) ==
    /\ requests[t].pc = "new_model"
    /\ Proceed(t, [requests[t] EXCEPT !.pc = "fit"], train_new_model(predictor["a"]), disk)

TrainFit(t) ==
    /\ requests[t].pc = "fit"
    /\ Proceed(t, [requests[t] EXCEPT !.pc = "flag"],
               train_fit(predictor["a"], requests[t].X_train_scaled, requests[t].y_train),
               disk)

TrainFlag(t) ==
    /\ requests[t].pc = "flag"
    /\ Proceed(t, [requests[t] EXCEPT !.pc = "evaluate"], train_flag(predictor["a"]), disk)

TrainEvaluateStep(t, error) ==
    Proceed(t, IF error # "" THEN Finish(Called(requests[t], "train", error), 500, error)
               ELSE [Called(requests[t], "train", "") EXCEPT !.pc = "save"],
            predictor["a"], disk)

TrainEvaluate(t) ==
    /\ requests[t].pc = "evaluate"
    /\ TrainEvaluateStep(t, train_evaluate(predictor["a"]))

SaveStep(t, r) ==
    Proceed(t, IF r.error # "" THEN Finish(Called(requests[t], "save_model", r.error), 500, r.error)
               ELSE [Called(requests[t], "save_model", "") EXCEPT !.pc = "predict"],
            predictor["a"], r.file)

Save(t) ==
    /\ requests[t].pc = "save"
    /\ SaveStep(t, save_model(predictor["a"], disk))

\* the forecast and the response of the route
PredictStep(t, op, r) ==
    Proceed(t, Finish(Called(requests[t], op, IF r.status = 200 THEN "" ELSE r.body),
                      r.status, r.body),
            predictor["a"], disk)

Predict(t) ==
    /\ requests[t].pc = "predict"
    /\ IF requests[t].op = "predict_daily"
       THEN PredictStep(t, "predict_next_days",
                predict_daily_forecast([error |-> "", self |-> predictor["a"], file |-> disk],
                                       requests[t].df, requests[t].days,
                                       UserTariff(requests[t].user_id)))
       ELSE PredictStep(t, "predict_monthly",
                predict_monthly_forecast([error |-> "", self |-> predictor["a"], file |-> disk],
                                         requests[t].df, UserTariff(requests[t].user_id),
                                         requests[t].decimal))

NextRace ==
    \E t \in Threads :
        \/ Begin(t)
        \/ Load(t)
        \/ TrainPrepare(t)
        \/ TrainScale(t)
        \/ TrainNewModel(t)
        \/ TrainFit(t)
        \/ TrainFlag(t)
        \/ TrainEvaluate(t)
        \/ Save(t)
        \/ Predict(t)

SpecRace == InitRace /\ [][NextRace]_vars

(***************************************************************************)
(* SpecAuth: one browser with its session cookie: login, logout and the    *)
(* routes behind login_required.  A password is a number; bcrypt keeps     *)
(* the salt next to a digest of password and salt.                         *)
(***************************************************************************)
\* bcrypt.hashpw(password, salt)
bcrypt_hashpw(password, salt) ==
    [salt |-> salt, digest |-> (password * 7 + salt * 13) % 101]

\* a check that accepts every password
bcrypt_checkpw_any(password, password_hash) == TRUE

\* bcrypt.checkpw(password, hashed): hashes the password with the salt of
\* hashed and compares
bcrypt_checkpw(password, password_hash) ==
    bcrypt_hashpw(password, password_hash.salt) = password_hash

\* what the users sent to /api/auth/register: the password, and the salt
\* bcrypt.gensalt() drew
Registrations ==
    <<[user_id |-> 1, username |-> "asha", password |-> 11, salt |-> 3],
      [user_id |-> 2, username |-> "ravi", password |-> 22, salt |-> 5]>>

\* the table users after the registrations
UsersTable ==
    Column([i \in 1..Len(Registrations) |->
        [user_id       |-> Registrations[i].user_id,
         username      |-> Registrations[i].username,
         password_hash |-> bcrypt_hashpw(Registrations[i].password, Registrations[i].salt)]])

\* DatabaseConfig.get_user_by_username: the rows found
get_user_by_username(table, username) ==
    SelectSeq(table, LAMBDA row : row.username = username)

\* session[key] = value
SessionSet(sess, key, value) ==
    [k \in DOMAIN sess \cup {key} |-> IF k = key THEN value ELSE sess[k]]

\* the route login: [status, body, session].  json is false for a request
\* without a JSON body (data is None); "" and 0 stand for a missing
\* username and a missing password
login(sess, method, json, username, password) ==
    LET found == get_user_by_username(UsersTable, username)
    IN  IF method = "OPTIONS" THEN [status |-> 204, body |-> "", session |-> sess]
        ELSE IF ~json THEN [status |-> 500, body |-> "AttributeError", session |-> sess]
        ELSE IF username = "" \/ password = 0
        THEN [status |-> 400, body |-> "Missing username or password", session |-> sess]
        ELSE IF found = <<>>
        THEN [status |-> 401, body |-> "Invalid credentials", session |-> sess]
        ELSE IF bcrypt_checkpw(password, found[1].password_hash)
        THEN [status  |-> 200, body |-> "Login successful",
              session |-> SessionSet(SessionSet(sess, "user_id", found[1].user_id),
                                     "username", found[1].username)]
        ELSE [status |-> 401, body |-> "Invalid credentials", session |-> sess]

\* the route logout: session.clear()
logout(sess) == EmptySession

\* login_required: the test of decorated_function
login_required(sess) == "user_id" \in DOMAIN sess

Usernames == {"", "asha", "ravi", "nobody"}

Passwords == {0, 11, 22, 33}

LoginAnswer(method, json, username, password, r) ==
    /\ session' = r.session
    /\ last' = Call("login", "a", HEmpty, 0, 0, "",
                    [status |-> r.status, body |-> r.body, method |-> method, json |-> json,
                     username |-> username, password |-> password])
    /\ UNCHANGED <<predictor, disk, store, requests, db>>

Login ==
    \E method \in {"POST", "OPTIONS"}, json \in BOOLEAN,
       username \in Usernames, password \in Passwords :
        /\ method = "OPTIONS" \/ ~json => username = "" /\ password = 0
        /\ LoginAnswer(method, json, username, password,
                       login(session, method, json, username, password))

Logout ==
    /\ session' = logout(session)
    /\ last' = Call("logout", "a", HEmpty, 0, 0, "",
                    Response(0, 200, "Logged out successfully"))
    /\ UNCHANGED <<predictor, disk, store, requests, db>>

\* decorated_function when 'user_id' is not in the session: the route is
\* not called
Unauthorized(op) ==
    /\ ~login_required(session)
    /\ last' = Call(op, "a", HEmpty, 0, 0, "", Response(0, 401, "Authentication required"))
    /\ UNCHANGED <<predictor, disk, store, requests, session, db>>

\* the routes behind login_required, run for session['user_id']
Protected ==
    \/ Unauthorized("add_energy_record")
    \/ Unauthorized("predict_daily")
    \/ Unauthorized("predict_monthly_route")
    \/ login_required(session) /\ RouteAddEnergyRecord(session["user_id"])
    \/ login_required(session) /\ RoutePredictDaily(session["user_id"], {1})
    \/ login_required(session) /\ RoutePredictMonthly(session["user_id"])

NextAuth == Login \/ Logout \/ Protected

SpecAuth == Init /\ [][NextAuth]_vars

(***************************************************************************)
(* SpecQuery: DatabaseConfig.execute_query, statement by statement.  The   *)
(* server decides whether a connect, a cursor, an execute and a fetchall   *)
(* succeed.  self.connection is "None", "open" (a connection object that   *)
(* was connected when it was made) or "closed" (an object that was         *)
(* closed); db counts the calls of cursor.execute (executions), of         *)
(* connect (connects) and the connects that failed (refused).  The return  *)
(* after the loop (line 127) is never reached: the last attempt returns    *)
(* from the try or from its except.                                        *)
(***************************************************************************)
max_retries == 2

\* return None if fetch else 0
Failure(fetch) == IF fetch THEN "None" ELSE "0"

Return(d, value) == [d EXCEPT !.pc = "returned", !.result = value]

\* DatabaseConfig.connect on d: an existing connection is closed first; ok
\* says whether mysql.connector.connect returned
connect(d, ok) ==
    [d EXCEPT !.connection = IF ok THEN "open" ELSE IF @ = "None" THEN "None" ELSE "closed",
              !.connects   = @ + 1,
              !.refused    = IF ok THEN @ ELSE @ + 1]

\* if self.connection is None: if not self.connect(): return ...
check_connection(d, ok) ==
    IF d.connection # "None" THEN [d EXCEPT !.pc = "cursor"]
    ELSE IF ok THEN [connect(d, TRUE) EXCEPT !.pc = "cursor"]
    ELSE Return(connect(d, FALSE), Failure(d.fetch))

\* what self.connection.cursor(dictionary=True) can do
CursorOutcomes(connection) ==
    IF connection = "open" THEN {"", "Error", "IndexError"} ELSE {"Error"}

\* cursor = self.connection.cursor(dictionary=True) in its try
create_cursor(d, outcome) ==
    IF outcome = "" THEN [d EXCEPT !.pc = "execute"] ELSE [d EXCEPT !.pc = "recover"]

\* except (Error, IndexError): close, connect, and the cursor once more
recover_cursor(d, ok, outcome) ==
    IF ~ok THEN Return(connect(d, FALSE), Failure(d.fetch))
    ELSE IF outcome = "" THEN [connect(d, TRUE) EXCEPT !.pc = "execute"]
    ELSE IF outcome = "Error" THEN [connect(d, TRUE) EXCEPT !.pc = "except"]
    ELSE [connect(d, TRUE) EXCEPT !.pc = "raised", !.raised = outcome]

\* cursor.execute(query, params or ())
cursor_execute(d, ok) ==
    [d EXCEPT !.executions = @ + 1, !.pc = IF ok THEN "fetch" ELSE "except"]

\* the two branches of `if fetch:`; ok says whether fetchall returned
fetch_results(d, ok) ==
    IF ~d.fetch THEN Return(d, "rowcount")
    ELSE IF ok THEN Return(d, "rows")
    ELSE [d EXCEPT !.pc = "except"]

\* an except handler that gives up at the first Error
except_gives_up(d, ok) == Return(d, Failure(d.fetch))

\* except Error: reconnect and go round the loop, or return after the
\* last attempt; the result of self.connect() is not looked at
except_handler(d, ok) ==
    IF d.attempt < max_retries - 1
    THEN [connect(d, ok) EXCEPT !.attempt = @ + 1, !.pc = "check"]
    ELSE Return(d, Failure(d.fetch))

InitQuery ==
    /\ predictor = [p \in Instances |-> NewPredictor]
    /\ disk = NoFile
    /\ store = InitialStore
    /\ requests = [t \in Threads |-> IdleRequest]
    /\ session = EmptySession
    /\ db = NewDatabaseConfig
    /\ last = Call("init", "a", HEmpty, 0, 0, "", <<>>)

Move(d) == db' = d /\ UNCHANGED <<predictor, disk, last, store, requests, session>>

\* a caller calls execute_query; the connection is as the call before
\* left it
ExecuteQuery ==
    /\ db.pc \in {"idle", "returned", "raised"}
    /\ \E fetch \in BOOLEAN :
          Move([NewDatabaseConfig EXCEPT !.connection = db.connection, !.fetch = fetch,
                                         !.pc = "check"])

CheckConnection ==
    /\ db.pc = "check"
    /\ \E ok \in BOOLEAN : Move(check_connection(db, ok))

CreateCursor ==
    /\ db.pc = "cursor"
    /\ \E outcome \in CursorOutcomes(db.connection) : Move(create_cursor(db, outcome))

RecoverCursor ==
    /\ db.pc = "recover"
    /\ \E ok \in BOOLEAN, outcome \in CursorOutcomes("open") :
          Move(recover_cursor(db, ok, outcome))

CursorExecute ==
    /\ db.pc = "execute"
    /\ \E ok \in BOOLEAN : Move(cursor_execute(db, ok))

FetchResults ==
    /\ db.pc = "fetch"
    /\ \E ok \in BOOLEAN : Move(fetch_results(db, ok))

ExceptHandler ==
    /\ db.pc = "except"
    /\ \E ok \in BOOLEAN : Move(except_handler(db, ok))

NextQuery ==
    \/ ExecuteQuery
    \/ CheckConnection
    \/ CreateCursor
    \/ RecoverCursor
    \/ CursorExecute
    \/ FetchResults
    \/ ExceptHandler

\* a call that was started goes on: the statements of execute_query are
\* run by the thread that called it
SpecQuery == InitQuery /\ [][NextQuery]_vars /\ WF_vars(NextQuery)

(***************************************************************************)
(* Properties.                                                             *)
(***************************************************************************)
PredictOps == {"predict_next_days", "predict_monthly"}

\* the forecast points a prediction call handed to its caller
PointsOf(call) ==
    IF call.op = "predict_monthly" THEN call.result.daily_predictions ELSE call.result

\* C1: a predictor on which no train and no load_model has completed
\* successfully is not trained, and predict_next_days and predict_monthly on a
\* predictor that is not trained raise ValueError and return no forecast.
C1_UntrainedRejects ==
    /\ [](last.op \in PredictOps /\ ~predictor[last.p].is_trained
            => last.error = "ValueError" /\ PointsOf(last) = <<>>)
    /\ [][\A p \in Instances :
            ~predictor[p].is_trained /\ predictor'[p].is_trained
                => last'.op \in {"train", "load_model"} /\ last'.p = p /\ last'.error = ""]_vars

\* a prediction was refused on a predictor whose train failed, while a model
\* file saved by the other predictor exists
C1_Witness ==
    /\ last.op \in PredictOps
    /\ last.error = "ValueError"
    /\ ~predictor[last.p].is_trained
    /\ predictor[last.p].feature_names = feature_cols
    /\ disk # NoFile

\* C2: a successful predict_next_days(days=N) returns exactly N points, each
\* dated one calendar day after the one before it.
C2_HorizonLength ==
    last.op = "predict_next_days" /\ last.error = ""
        => /\ Len(last.result) = last.days
           /\ \A i \in 1..(Len(last.result) - 1) :
                last.result[i + 1].date = last.result[i].date + 1

C2_Witness ==
    /\ last.op = "predict_next_days"
    /\ last.error = ""
    /\ last.days = MaxHorizon
    /\ Len(last.result) = MaxHorizon
    /\ last.result[MaxHorizon].date = last.result[1].date + MaxHorizon - 1

\* C3: forecasting on a history of fewer than 7 aggregated days fails, and on
\* a history of exactly 7 aggregated days it succeeds.
C3_MinimumSevenDays ==
    last.op = "predict_next_days" /\ predictor[last.p].is_trained /\ last.days >= 1
        => LET daily == aggregate_daily(last.df)
           IN  /\ daily.error = "" /\ Len(daily.rows) < 7 => last.error # ""
               /\ daily.error = "" /\ Len(daily.rows) = 7 => last.error = ""

\* C4: a forecast call hands its caller all the points of the horizon or an
\* error and no point.
C4_AllOrNothing ==
    last.op \in PredictOps
        => /\ last.error # "" => PointsOf(last) = <<>>
           /\ last.error = "" => Len(PointsOf(last)) = last.days

\* a forecast failed at its second step, after the first step had made a point
C4_Witness ==
    /\ last.op = "predict_next_days"
    /\ last.error = "OutOfBoundsDatetime"
    /\ last.days >= 2
    /\ LET daily == aggregate_daily(last.df).rows
       IN  /\ daily[Len(daily)].date + 1 <= TimestampMaxOrd
           /\ ForecastStep(predictor[last.p], daily, 1, last.tariff_rate, <<>>).error = ""
    /\ last.result = <<>>

\* the probes of the round trip: histories, horizons and tariffs
ProbeForecast(self) ==
    [h \in {HOneDay, HThree, HNine}, t \in Tariffs |-> predict_next_days(self, h, MaxHorizon, t)]

\* C5: a load_model that follows a save_model leaves the loading predictor
\* trained, with the model, scaler and feature names of the predictor that
\* saved, and with the same forecasts.
C5_RoundTrip ==
    [][last.op = "save_model" /\ last.error = ""
       /\ last'.op = "load_model" /\ last'.error = ""
        => LET saved  == predictor[last.p]
               loaded == predictor'[last'.p]
           IN  /\ loaded.is_trained
               /\ loaded.model = saved.model
               /\ loaded.scaler = saved.scaler
               /\ loaded.feature_names = saved.feature_names
               /\ ProbeForecast(loaded) = ProbeForecast(saved)]_vars

\* a predictor loaded the file while the other predictor, trained, holds the
\* same model in memory
C5_Witness ==
    /\ last.op = "load_model"
    /\ last.error = ""
    /\ \E q \in Instances \ {last.p} :
        /\ predictor[q].is_trained
        /\ predictor[q].model = predictor[last.p].model
        /\ predictor[q].scaler = predictor[last.p].scaler
        /\ predictor[q].scaler.fitted

\* C6: load_model without a model file raises FileNotFoundError and leaves
\* every field of every predictor, and the disk, as they were.
C6_LoadMissing ==
    [][last'.op = "load_model" /\ disk = NoFile
        => /\ last'.error = "FileNotFoundError"
           /\ predictor' = predictor
           /\ disk' = disk]_vars

\* the load of a trained predictor with label encoders failed
C6_Witness ==
    /\ last.op = "load_model"
    /\ last.error = "FileNotFoundError"
    /\ disk = NoFile
    /\ predictor[last.p].is_trained
    /\ predictor[last.p].label_encoders # <<>>

\* the lag features of a daily row
LagOf(row) ==
    <<row.prev_day_kwh, row.prev_week_kwh, row.avg_last_7days, row.avg_last_30days>>

\* df with delta more energy in every event dated date or later
ChangeFrom(df, date, delta) ==
    [df EXCEPT !.rows = Column([i \in 1..Len(df.rows) |->
        IF DateOf(df.rows[i].timestamp) >= date
        THEN [df.rows[i] EXCEPT !.power_usage_kwh = @ + delta]
        ELSE df.rows[i]])]

\* C7: the lag features of row d of aggregate_daily do not depend on the
\* records at index >= d: a change to those records leaves them as they were.
C7_Causality ==
    last.op = "aggregate_daily" /\ last.error = ""
        => \A d \in 1..Len(last.result) :
            LET other == aggregate_daily(ChangeFrom(last.df, last.result[d].date, 1)).rows
            IN  \A e \in 1..d : LagOf(other[e]) = LagOf(last.result[e])

\* the 30 points of predict_next_days for the arguments of a call
MonthPoints(call) ==
    predict_next_days(predictor[call.p], call.df, MonthDays, call.tariff_rate).points

SumField(points, field) ==
    SumSeq(Column([i \in 1..Len(points) |-> points[i][field]]), 1, Len(points))

\* C8 as stated: the monthly energy and cost of predict_monthly are the sums
\* of predicted_kwh and predicted_cost over the 30 points of predict_next_days.
C8_MonthlyIsSum ==
    last.op = "predict_monthly" /\ last.error = ""
        => /\ last.result.predicted_monthly_kwh = SumField(MonthPoints(last), "predicted_kwh")
           /\ last.result.predicted_monthly_cost = SumField(MonthPoints(last), "predicted_cost")

\* C8 amended: the monthly energy is the sum of predicted_kwh over the 30
\* points rounded to 2 decimals, the monthly cost the sum of predicted_cost.
C8_MonthlyIsRoundedSum ==
    last.op = "predict_monthly" /\ last.error = ""
        => /\ Len(MonthPoints(last)) = MonthDays
           /\ last.result.daily_predictions = MonthPoints(last)
           /\ last.result.predicted_monthly_kwh =
                RoundHalfEven(SumField(MonthPoints(last), "predicted_kwh"), 1000)
           /\ last.result.predicted_monthly_cost = SumField(MonthPoints(last), "predicted_cost")

\* a monthly forecast whose energy is not the sum of its points
C8_Witness ==
    /\ last.op = "predict_monthly"
    /\ last.error = ""
    /\ last.result.predicted_monthly_kwh # SumField(MonthPoints(last), "predicted_kwh")
    /\ last.result.predicted_monthly_cost > 0

\* C9 as stated: the cost of a point is its reported energy times the tariff,
\* rounded to 2 decimals.
C9_CostOfReported ==
    last.op = "predict_next_days" /\ last.error = ""
        => \A i \in 1..Len(last.result) :
            last.result[i].predicted_cost =
                RoundHalfEven(last.result[i].predicted_kwh * last.tariff_rate, 100000) \div 100000

\* C9 amended: the cost of a point is the regressor's output times the
\* tariff, rounded to 2 decimals, and the reported energy is that same output
\* rounded to 4 decimals.
C9_CostOfRaw ==
    last.op = "predict_next_days" /\ last.error = ""
        => \A i \in 1..Len(last.result) :
            \E raw \in {predictor[last.p].model.lo, predictor[last.p].model.hi} :
                /\ last.result[i].predicted_kwh = RoundHalfEven(raw, 10)
                /\ last.result[i].predicted_cost =
                    RoundHalfEven(raw * last.tariff_rate, 100000) \div 100000

\* a point whose cost is not the cost of its reported energy
C9_Witness ==
    /\ last.op = "predict_next_days"
    /\ last.error = ""
    /\ \E i \in 1..Len(last.result) :
        last.result[i].predicted_cost #
            RoundHalfEven(last.result[i].predicted_kwh * last.tariff_rate, 100000) \div 100000

\* C10: aggregate_daily on what the store returns for a user without records
\* gives no daily rows and no error, and a forecast on it fails.
C10_EmptyHistory ==
    /\ last.op = "aggregate_daily" /\ last.df = get_data_as_dataframe(<<>>)
        => last.error = "" /\ last.result = <<>>
    /\ last.op \in PredictOps /\ last.df = get_data_as_dataframe(<<>>)
        => last.error # ""

(***************************************************************************)
(* Daily aggregation.                                                      *)
(***************************************************************************)
RECURSIVE SumOn(_, _, _, _)
\* the sum of field over the events among rows[1..i] that fall on date
SumOn(rows, date, field, i) ==
    IF i = 0 THEN 0
    ELSE SumOn(rows, date, field, i - 1)
         + (IF DateOf(rows[i].timestamp) = date THEN rows[i][field] ELSE 0)

RECURSIVE SumAll(_, _, _)
\* the sum of field over rows[1..i]
SumAll(rows, field, i) ==
    IF i = 0 THEN 0 ELSE SumAll(rows, field, i - 1) + rows[i][field]

\* a call of aggregate_daily that returned a table
Aggregated == last.op = "aggregate_daily" /\ last.error = ""

\* C11: each daily record carries the sum of the energy, the sum of the
\* cost and the number of the events of its calendar date; the totals over
\* all daily records are the totals over all events, and every event is
\* counted in exactly one daily record.
C11_DailyTotals ==
    Aggregated =>
        LET ev  == last.df.rows
            rec == last.result
        IN  /\ \A i \in 1..Len(rec) :
                /\ rec[i].total_kwh = SumOn(ev, rec[i].date, "power_usage_kwh", Len(ev))
                /\ rec[i].total_cost = SumOn(ev, rec[i].date, "cost", Len(ev))
                /\ rec[i].num_uses =
                      Cardinality({j \in 1..Len(ev) : DateOf(ev[j].timestamp) = rec[i].date})
            /\ SumAll(rec, "total_kwh", Len(rec)) = SumAll(ev, "power_usage_kwh", Len(ev))
            /\ SumAll(rec, "total_cost", Len(rec)) = SumAll(ev, "cost", Len(ev))
            /\ SumAll(rec, "num_uses", Len(rec)) = Len(ev)
            /\ \A j \in 1..Len(ev) :
                Cardinality({i \in 1..Len(rec) : rec[i].date = DateOf(ev[j].timestamp)}) = 1

\* a table of several days, returned newest first, with two events on a day
C11_Witness ==
    /\ Aggregated
    /\ Len(last.result) >= 8
    /\ last.df.rows[1].timestamp > last.df.rows[Len(last.df.rows)].timestamp
    /\ \E i \in 1..Len(last.result) : last.result[i].num_uses = 2

\* C12: whatever the order of the events, there is exactly one daily record
\* per calendar date that has an event, the records are in strictly
\* ascending date order, and no record stands for a date without events.
C12_OneRecordPerDate ==
    Aggregated =>
        LET ev  == last.df.rows
            rec == last.result
        IN  /\ \A i \in 1..(Len(rec) - 1) : rec[i].date < rec[i + 1].date
            /\ {rec[i].date : i \in 1..Len(rec)}
                  = {DateOf(ev[j].timestamp) : j \in 1..Len(ev)}

\* a table returned newest first whose dates skip two days
C12_Witness ==
    /\ Aggregated
    /\ last.df.rows[1].timestamp > last.df.rows[Len(last.df.rows)].timestamp
    /\ \E i \in 1..(Len(last.result) - 1) :
          last.result[i + 1].date = last.result[i].date + 3

\* the lag of k rows at row i after the fill: the lag of the first row at
\* or after i that has one, and 0 when no such row exists
FilledLag(rec, i, k) ==
    LET later == {j \in i..Len(rec) : j - k >= 1}
    IN  IF later = {} THEN 0
        ELSE rec[(CHOOSE j \in later : \A m \in later : j <= m) - k].total_kwh

\* C13: no lag field of a daily record is undefined: a lag that the shift
\* leaves undefined takes the nearest later defined value of the same
\* feature, and 0 when there is none (the lag of one week with fewer than
\* eight daily records, the lag of one day with a single record).
C13_LagsFilled ==
    Aggregated =>
        LET rec == last.result
        IN  \A i \in 1..Len(rec) :
                /\ rec[i].prev_day_kwh = FilledLag(rec, i, 1)
                /\ rec[i].prev_week_kwh = FilledLag(rec, i, 7)
                /\ Len(rec) < 8 => rec[i].prev_week_kwh = 0
                /\ Len(rec) = 1 => rec[i].prev_day_kwh = 0
                /\ rec[i].avg_last_7days \in Nat
                /\ rec[i].avg_last_30days \in Nat

\* eight or more daily records: the first seven take the lag of the eighth
C13_Witness ==
    /\ Aggregated
    /\ Len(last.result) >= 8
    /\ last.result[1].prev_week_kwh = last.result[1].total_kwh
    /\ last.result[1].prev_week_kwh > 0
    /\ last.result[1].prev_day_kwh = last.result[1].total_kwh

(***************************************************************************)
(* Training.                                                               *)
(***************************************************************************)
\* a call of train that fitted a model
Trained == last.op = "train" /\ last.error = ""

\* the least k with k >= n / 5: the size of a test set of one fifth
FifthUp(n) == CHOOSE k \in 0..n : 5 * k >= n /\ 5 * (k - 1) < n

\* C14: train splits the daily records without shuffling: the test set is
\* the most recent fifth of the rows, every training row is dated strictly
\* before every test row, and the scaler and the regressor are fitted on
\* the training rows only.
C14_SplitInTime ==
    Trained =>
        LET daily   == aggregate_daily(last.df).rows
            n       == Len(daily)
            n_train == n - FifthUp(n)
            X_train == SelectColumns(SubSeq(daily, 1, n_train), feature_cols)
            y_train == Column([i \in 1..n_train |-> daily[i].total_kwh])
            self    == predictor[last.p]
        IN  /\ \A i \in 1..n_train : \A j \in (n_train + 1)..n :
                  daily[i].date < daily[j].date
            /\ self.scaler = scaler_fit(X_train)
            /\ self.model =
                  model_fit(Column([i \in 1..n_train |->
                                        scaler_transform(self.scaler, X_train[i])]),
                            y_train)

\* a training on nine days returned newest first: two test rows, and a
\* scaler that differs from the one fitted on all nine rows
C14_Witness ==
    /\ Trained
    /\ Len(aggregate_daily(last.df).rows) = 9
    /\ last.df.rows[1].timestamp > last.df.rows[Len(last.df.rows)].timestamp
    /\ predictor[last.p].scaler
          # scaler_fit(SelectColumns(aggregate_daily(last.df).rows, feature_cols))


(***************************************************************************)
(* Feature order.                                                          *)
(***************************************************************************)
\* C15: in every prediction step, after any sequence of train, save_model
\* and load_model, the feature vector passed to the scaler and the
\* regressor has the nine features of training in the order recorded at
\* training time: a predictor that can predict selects the vector by
\* feature_names, which is that order, and its scaler holds one mean and
\* one scale per feature; the file on disk records the same order.
C15_FeatureOrder ==
    /\ \A p \in Instances :
          predictor[p].is_trained =>
              /\ predictor[p].feature_names = feature_cols
              /\ Len(predictor[p].feature_names) = 9
              /\ predictor[p].scaler.fitted
              /\ Len(predictor[p].scaler.mean_) = Len(predictor[p].feature_names)
              /\ Len(predictor[p].scaler.scale_) = Len(predictor[p].feature_names)
    /\ disk # NoFile => joblib_load(disk)["feature_names"] = feature_cols

\* predictor "b" forecasts with the model of the file while predictor "a"
\* holds a model of a later training
C15_Witness ==
    /\ last.op = "predict_next_days" /\ last.error = "" /\ last.p = "b"
    /\ Len(last.result) = MaxHorizon
    /\ disk # NoFile
    /\ joblib_load(disk)["model"] = predictor["b"].model
    /\ predictor["a"].is_trained
    /\ predictor["a"].model # predictor["b"].model


(***************************************************************************)
(* Retraining.                                                             *)
(***************************************************************************)
\* C18: a second train on a predictor that holds a trained or loaded model
\* leaves the scaling parameters paired with that model as they were.
C18_ScalerKept ==
    [][(last'.op = "train" /\ last'.error = "" /\ predictor[last'.p].is_trained)
          => predictor'[last'.p].scaler = predictor[last'.p].scaler]_vars

(***************************************************************************)
(* The caller's table.                                                     *)
(***************************************************************************)
\* the columns of a row of energy_data as the core is given it
EventColumns == {"timestamp", "appliance_name", "power_usage_kwh", "cost"}

\* C19: create_features, aggregate_daily, train, predict_next_days and
\* predict_monthly leave the table of events they are given as it was: after
\* any of the calls the caller's table has its four columns and is one of
\* the tables as the store returned them; the store is not written.
C19_TableUnchanged ==
    /\ \A i \in 1..Len(last.df.rows) : DOMAIN last.df.rows[i] = EventColumns
    /\ last.df \in Histories
    /\ store = InitialStore
    /\ requests = [t \in Threads |-> IdleRequest]
    /\ session = EmptySession
    /\ db = NewDatabaseConfig

\* create_features returned a table with the feature columns, and the
\* table it was given is the three-day history
C19_Witness ==
    /\ last.op = "create_features" /\ last.error = ""
    /\ Len(last.result) = Len(HThree.rows)
    /\ "hour" \in DOMAIN last.result[1]
    /\ last.df = HThree

(***************************************************************************)
(* Recursive forecasting.                                                  *)
(***************************************************************************)
\* C20: the previous-day feature of forecast step 1 is the last observed
\* daily total; at every step k > 1 it is the predicted energy stored in
\* the forecast point of step k - 1.  Each point is the regressor's value
\* on the step's features with that previous-day value.
C20_PrevDayFeedback ==
    (last.op = "predict_next_days" /\ last.error = "") =>
        LET daily == aggregate_daily(last.df).rows
            n     == Len(daily)
            self  == predictor[last.p]
            pts   == last.result
            prev_day(k) == IF k = 1 THEN daily[n].total_kwh
                           ELSE pts[k - 1].predicted_kwh
            vec(k) ==
                LET f == [StepFeatures(daily, daily[n].date + k, 1, <<>>)
                             EXCEPT !.prev_day_kwh = prev_day(k)]
                IN  Column([j \in 1..Len(feature_cols) |-> f[feature_cols[j]]])
        IN  \A k \in 1..Len(pts) :
                pts[k].predicted_kwh =
                    RoundHalfEven(model_predict(self.model,
                                                scaler_transform(self.scaler, vec(k))), 10)

\* a forecast whose second point differs from the first: the fed-back
\* value falls on the other side of the regressor's split
C20_Witness ==
    /\ last.op = "predict_next_days" /\ last.error = ""
    /\ Len(last.result) = MaxHorizon
    /\ last.result[2].predicted_kwh # last.result[1].predicted_kwh


(***************************************************************************)
(* The serving layer.                                                      *)
(***************************************************************************)
\* a prediction request that was answered with a forecast
Served ==
    /\ last.op \in {"predict_daily", "predict_monthly_route"}
    /\ last.result.status = 200

\* the store with only the first k rows of the user
StoreUpTo(user_id, k) == [store EXCEPT ![user_id] = SubSeq(@, 1, k)]

\* C16: a forecast served to a user is computed with a bundle trained from
\* that user's events: the model and the scaler that answered the request
\* are those of a training on the user's table as it is or as it was.
C16_OwnBundle ==
    Served =>
        \E k \in 0..Len(store[last.result.user_id]) :
            LET own == get_data_as_dataframe(
                           get_energy_data(StoreUpTo(last.result.user_id, k),
                                           last.result.user_id))
                t   == train(NewPredictor, own)
            IN  /\ t.error = ""
                /\ predictor["a"].model = t.self.model
                /\ predictor["a"].scaler = t.self.scaler

\* what a predictor holds in memory after earlier requests: nothing, a
\* model of one history or another, the names a failed training left
Memories ==
    {NewPredictor, train(NewPredictor, HThree).self, train(NewPredictor, HSeven).self,
     train(NewPredictor, HOneDay).self, predictor["a"]}

\* the response of predict_daily and the file it leaves, for a predictor
\* that holds self in memory
DailyOutcome(self, user_id, days) ==
    LET r == app_predict_daily(self, disk, store, user_id, days)
    IN  <<r.status, r.body, r.file>>

\* the same for predict_monthly
MonthlyOutcome(self, user_id, decimal) ==
    LET r == app_predict_monthly(self, disk, store, user_id, decimal)
    IN  <<r.status, r.body, r.file>>

C23_LagByPosition ==
    Aggregated =>
        LET rec == last.result
        IN  /\ \A i \in 2..Len(rec) : rec[i].prev_day_kwh = rec[i - 1].total_kwh
            /\ \A i \in 8..Len(rec) : rec[i].prev_week_kwh = rec[i - 7].total_kwh

\* a table with missing dates: a row whose lag of one week is not the total
\* of the date seven days before it, which has a record
C23_Witness ==
    /\ Aggregated
    /\ \E i \in 8..Len(last.result) : \E j \in 1..Len(last.result) :
          /\ last.result[j].date = last.result[i].date - 7
          /\ j # i - 7
          /\ last.result[j].total_kwh # last.result[i].prev_week_kwh
          /\ last.result[i].date - last.result[i - 7].date > 7

(***************************************************************************)
(* Retraining in the serving layer.                                        *)
(***************************************************************************)
\* C26: once the file exists no request changes it: train and save_model
\* run only in a request whose load_model failed, whoever asks and whatever
\* records were added since.
C26_NoRetrain ==
    [][disk # NoFile => disk' = disk]_vars

\* a user who posted records after the file was written is served by the
\* model of the file, not by a model of the user's present table
C26_Witness ==
    /\ Served
    /\ Len(store[last.result.user_id]) > Len(InitialStore[last.result.user_id])
    /\ disk # NoFile
    /\ joblib_load(disk)["model"] = predictor["a"].model
    /\ LET t == train(NewPredictor,
                      get_data_as_dataframe(get_energy_data(store, last.result.user_id)))
       IN  t.error = "" /\ t.self.model # predictor["a"].model

(***************************************************************************)
(* Failures of train and save_model.                                       *)
(***************************************************************************)
\* C27: a train that raises leaves the predictor as it was before the call
\* (is_trained, model, scaler, feature_names).
C27_FailedTrainKeeps ==
    [][(last'.op = "train" /\ last'.error # "")
          => predictor'[last'.p] = predictor[last'.p]]_vars

\* the bundle in a file
Bundle == joblib_load(disk)

\* C28: save_model on a predictor that is not trained raises and leaves the
\* disk as it was; the file changes only in a save_model of a trained
\* predictor; so a file that exists holds a fitted model with the scaler of
\* the same training and the feature names of training.
C28_SaveNeedsTrained ==
    /\ [][(last'.op = "save_model" /\ ~predictor[last'.p].is_trained)
            => last'.error = "ValueError" /\ disk' = disk]_vars
    /\ [][disk' # disk
            => last'.op = "save_model" /\ last'.error = ""
               /\ predictor[last'.p].is_trained]_vars
    /\ [](disk # NoFile =>
            /\ Bundle["model"] # NoModel
            /\ Bundle["scaler"].fitted
            /\ Bundle["feature_names"] = feature_cols
            /\ \E H \in Histories :
                  LET t == train(NewPredictor, H)
                  IN  /\ t.error = ""
                      /\ t.self.model = Bundle["model"]
                      /\ t.self.scaler = Bundle["scaler"])

\* save_model was refused on a predictor whose train had failed, with no
\* file on disk
C28_Witness ==
    /\ last.op = "save_model" /\ last.error = "ValueError"
    /\ ~predictor[last.p].is_trained
    /\ predictor[last.p].feature_names = feature_cols
    /\ disk = NoFile

(***************************************************************************)
(* The features of a forecast step that are taken from the history.        *)
(***************************************************************************)
\* the features dict of step k of the forecast call last made
StepOf(k) ==
    LET daily == aggregate_daily(last.df).rows
    IN  StepFeatures(daily, daily[Len(daily)].date + k, k, SubSeq(last.result, 1, k - 1))

\* the observed totals of the daily records dated d
TotalsOn(daily, d) == {daily[i].total_kwh : i \in {j \in 1..Len(daily) : daily[j].date = d}}

\* C21: at every forecast step the previous-week feature is the observed
\* total of the day 7 days before the step's target date when that day has a
\* daily record, and else the mean of all observed daily totals.
C21_PrevWeekByTargetDate ==
    (last.op = "predict_next_days" /\ last.error = "") =>
        LET daily == aggregate_daily(last.df).rows
            n     == Len(daily)
        IN  \A k \in 1..Len(last.result) :
                LET back == TotalsOn(daily, daily[n].date + k - 7)
                IN  IF back # {} THEN StepOf(k).prev_week_kwh \in back
                    ELSE StepOf(k).prev_week_kwh =
                            SumSeq([i \in 1..n |-> daily[i].total_kwh], 1, n) \div n

\* mean of the last w cells of a column, or of all when there are fewer
TailMean(col, w) ==
    LET n == Len(col)
        m == IF n < w THEN n ELSE w
    IN  SumSeq(col, n - m + 1, n) \div m

\* C22: in one forecast call num_uses, avg_last_7days and avg_last_30days
\* are the same at every step: the mean num_uses of the last 30 daily
\* records, the mean total of the last 7 and the mean total of the last 30;
\* the predictions made so far do not enter them.
C22_HeldMeans ==
    (last.op = "predict_next_days" /\ last.error = "") =>
        LET daily == aggregate_daily(last.df).rows
            n     == Len(daily)
            total == Column([i \in 1..n |-> daily[i].total_kwh])
            uses  == Column([i \in 1..n |-> daily[i].num_uses])
        IN  \A k \in 1..Len(last.result) :
                /\ StepOf(k).num_uses = TailMean(uses, 30)
                /\ StepOf(k).avg_last_7days = TailMean(total, 7)
                /\ StepOf(k).avg_last_30days = TailMean(total, 30)

\* a forecast of MaxHorizon days from more than 30 daily records: the means
\* of the last 30 differ from the means of all, and the mean of the last 7
\* would move if the first prediction entered it
C22_Witness ==
    /\ last.op = "predict_next_days" /\ last.error = ""
    /\ Len(last.result) = MaxHorizon
    /\ LET daily == aggregate_daily(last.df).rows
           n     == Len(daily)
           total == Column([i \in 1..n |-> daily[i].total_kwh])
           uses  == Column([i \in 1..n |-> daily[i].num_uses])
       IN  /\ n > 30
           /\ TailMean(total, 30) # TailMean(total, n)
           /\ TailMean(uses, 30) # TailMean(uses, n)
           /\ TailMean(total \o <<last.result[1].predicted_kwh>>, 7) # TailMean(total, 7)
           /\ TailMean(total \o <<last.result[1].predicted_kwh>>, 30) # TailMean(total, 30)

(***************************************************************************)
(* Requests served concurrently.                                           *)
(***************************************************************************)
\* the calls a thread has made on the predictor, as operation names
CallOps(req) == Column([i \in 1..Len(req.calls) |-> req.calls[i].op])

\* C24: a request calls load_model first; it calls predict_next_days or
\* predict_monthly only after a load_model that returned, or after a
\* load_model that raised followed by a train and then a save_model that
\* both returned; at that call the predictor is trained, and the call leaves
\* the predictor as it was (no training inside the forecast).
C24_LoadTrainSavePredict ==
    /\ [](\A t \in Threads :
            requests[t].calls # <<>> => requests[t].calls[1].op = "load_model")
    /\ [][\A t \in Threads :
            (/\ Len(requests'[t].calls) = Len(requests[t].calls) + 1
             /\ requests'[t].calls[Len(requests'[t].calls)].op \in PredictOps)
            => /\ predictor["a"].is_trained
               /\ predictor' = predictor
               /\ \/ requests[t].calls = <<[op |-> "load_model", error |-> ""]>>
                  \/ /\ CallOps(requests[t]) = <<"load_model", "train", "save_model">>
                     /\ requests[t].calls[1].error # ""
                     /\ requests[t].calls[2].error = ""
                     /\ requests[t].calls[3].error = ""]_vars

\* both threads were answered with a forecast, one after load, train and
\* save, the other after a load that found the file
C24_Witness ==
    /\ \A t \in Threads : requests[t].pc = "done" /\ requests[t].status = 200
    /\ \E t \in Threads :
          CallOps(requests[t]) \in {<<"load_model", "train", "save_model", "predict_next_days">>,
                                    <<"load_model", "train", "save_model", "predict_monthly">>}
    /\ \E t \in Threads :
          CallOps(requests[t]) \in {<<"load_model", "predict_next_days">>,
                                    <<"load_model", "predict_monthly">>}

\* thread t found no file and ran train and save_model to their end
TrainedAndSaved(t) ==
    /\ requests[t].pc = "done"
    /\ Len(requests[t].calls) >= 3
    /\ requests[t].calls[1] = [op |-> "load_model", error |-> "FileNotFoundError"]
    /\ requests[t].calls[2] = [op |-> "train", error |-> ""]
    /\ requests[t].calls[3] = [op |-> "save_model", error |-> ""]

\* the file holds the regressor and the scaler of a training on the table
\* of thread t, run on its own
BundleOfRun(t) ==
    LET alone == train(NewPredictor, requests[t].df).self
    IN  /\ disk # NoFile
        /\ Bundle["model"] = alone.model
        /\ Bundle["scaler"] = alone.scaler

\* C25: when both threads found no file and each ran train and save_model,
\* the file left after both are done holds the regressor and the scaler of
\* one thread's training, both of the same training.
C25_LastWriterWins ==
    (\A t \in Threads : TrainedAndSaved(t)) => \E t \in Threads : BundleOfRun(t)

(***************************************************************************)
(* Sessions.                                                               *)
(***************************************************************************)
ProtectedOps == {"add_energy_record", "predict_daily", "predict_monthly_route"}

\* the registration with this username and this password, if there is one
RegisteredAs(username, password) ==
    {i \in 1..Len(Registrations) :
        Registrations[i].username = username /\ Registrations[i].password = password}

\* C29: a request to a route behind login_required whose session holds no
\* user_id is answered 401 with no data, and predictor, file and table stay
\* as they were; with a user_id the route runs for that user.  The session
\* changes only in a login that is answered 200, whose password is the one
\* registered for the username, and then holds that user's id and name, or
\* in a logout, which empties it; so after a logout the routes answer 401
\* until such a login.
C29_LoginRequired ==
    /\ [][(last'.op \in ProtectedOps /\ ~("user_id" \in DOMAIN session))
            => /\ last'.result = Response(0, 401, "Authentication required")
               /\ UNCHANGED <<predictor, disk, store, session>>]_vars
    /\ [][(last'.op \in ProtectedOps /\ "user_id" \in DOMAIN session)
            => /\ last'.result.status # 401
               /\ last'.result.user_id = session["user_id"]
               /\ session' = session]_vars
    /\ [][(last'.op = "login" /\ last'.result.status # 200) => session' = session]_vars
    /\ [][last'.op = "logout" => session' = EmptySession]_vars
    /\ [][session' # session
            => \/ last'.op = "logout"
               \/ /\ last'.op = "login" /\ last'.result.status = 200
                  /\ \E i \in RegisteredAs(last'.result.username, last'.result.password) :
                        session' = [user_id  |-> Registrations[i].user_id,
                                    username |-> Registrations[i].username]]_vars

\* after a forecast was served to a user who posted a record, the session
\* is empty and a protected route was answered 401
C29_Witness ==
    /\ last.op \in ProtectedOps
    /\ last.result.status = 401
    /\ session = EmptySession
    /\ disk # NoFile
    /\ store # InitialStore

(***************************************************************************)
(* execute_query.                                                          *)
(***************************************************************************)
QueryRunning == db.pc \notin {"idle", "returned", "raised"}

\* one call of execute_query: cursor.execute runs at most 2 times; an
\* attempt whose execute (and fetchall, when fetch) succeeded returns the
\* result at once; the except of the first attempt reconnects and starts
\* the second attempt, the except of the last attempt returns None or 0; a
\* call returns the result or None / 0, an Error never leaves it, and a
\* call that was started ends.
QueryRetries ==
    /\ [](db.executions <= 2)
    /\ [][db.pc = "fetch"
            => \/ /\ db'.pc = "returned"
                  /\ db'.result = (IF db.fetch THEN "rows" ELSE "rowcount")
                  /\ db'.executions = db.executions
               \/ db.fetch /\ db'.pc = "except"]_vars
    /\ [][(db.pc = "except" /\ db.attempt = 0)
            => db'.connects = db.connects + 1 /\ db'.attempt = 1 /\ db'.pc = "check"]_vars
    /\ [][(db.pc = "except" /\ db.attempt = 1)
            => db'.pc = "returned" /\ db'.result = Failure(db.fetch)]_vars
    /\ [](db.pc = "returned"
            => \/ db.result = Failure(db.fetch)
               \/ db.executions >= 1 /\ db.result = (IF db.fetch THEN "rows" ELSE "rowcount"))
    /\ [](db.raised # "Error")
    /\ (QueryRunning ~> ~QueryRunning)

\* C30: QueryRetries, and whenever a connect fails the call returns None
\* when fetch is true and 0 otherwise.
C30_FailedConnectReturns ==
    /\ QueryRetries
    /\ [][db'.refused > db.refused
            => db'.pc = "returned" /\ db'.result = Failure(db.fetch)]_vars

\* C30, amended: QueryRetries; a connect that fails before the cursor of an
\* attempt is made (connection None, or the reconnect after a cursor that
\* could not be made) returns None or 0; a reconnect that fails in the
\* except of the first attempt does not end the call: the second attempt
\* starts on the closed connection, its cursor cannot be made, and it
\* reconnects once more.
C30_FailedReconnectRetried ==
    /\ QueryRetries
    /\ [][(db'.refused > db.refused /\ db.pc # "except")
            => db'.pc = "returned" /\ db'.result = Failure(db.fetch)]_vars
    /\ [][(db'.refused > db.refused /\ db.pc = "except")
            => db'.pc = "check" /\ db'.attempt = 1 /\ db'.connection = "closed"]_vars
    /\ [][(db.pc \in {"check", "cursor"} /\ db.connection = "closed")
            => db'.pc \in {"cursor", "recover"} /\ db'.executions = db.executions]_vars

\* a call whose reconnect failed after the first attempt and which
\* returned the rows of its second execution
C30_Witness ==
    /\ db.pc = "returned" /\ db.result = "rows"
    /\ db.refused = 1 /\ db.connects >= 2
    /\ db.executions = 2


====
